---- MODULE Spec2Model ----
(***************************************************************************)
(* Model of bedrux_tui: the ServerController (controller.py) that          *)
(* supervises one child process under asyncio.  Every action is one        *)
(* atomic run of a coroutine between two suspension points (awaits); the   *)
(* child process and the passing of time are environment actions.          *)
(***************************************************************************)
EXTENDS Integers, Sequences, FiniteSets, TLC

(* ---- bounds ---- *)
MaxChildren == 2      \* children the controller may spawn in one behaviour
MaxCalls == 2         \* calls of start()/stop()/send_command() in flight at once
MaxStops == 1         \* calls of stop() in flight at once
MaxExitCode == 0      \* a child exits with a code in 0..MaxExitCode
MaxLines == 2         \* lines a child writes to each of its output streams
MaxStreamChildren == 1  \* children started where the output lines are followed
MaxOverlap == 2       \* calls of stop() in flight at once where they may overlap
MaxRaceLines == 1     \* lines a child writes where calls of start() overlap

MaxAppends == 3       \* append() calls on one LogBuffer before a clear()
MaxProcs == 2         \* processes handed to one StatsSampler
MaxSamples == 2       \* sample() calls per process
MaxReadings == 4      \* snapshots taken where the smoothing is followed

MaxControllers == 2   \* ServerController instances the application creates
MaxAppStops == 1      \* calls of stop_if_running() in flight at once
MaxAppLines == 1      \* lines a reader of the application's controllers logs
MaxLogged == 6        \* write_console() calls followed in one behaviour
MaxSends == 1         \* send_command() calls suspended in drain() at once

(* ---- program constants ---- *)
log_buffer_max == 2000  \* AppConfig.log_buffer_max
config_cpu_history_size == 5  \* AppConfig.cpu_history_size
MaxPercent == 100     \* clamp(normalized, 0.0, 100.0)
MiB == 1048576        \* rss_bytes / 1024 / 1024
RamFloor == 4096      \* max(4096, rss_mb)
MinWidth == 20        \* max(20, int(width))
TabSize == 8          \* str.expandtabs() in textwrap
Space == 32           \* " "
Tab == 9              \* "\t"
NoProc == 0           \* self._proc is None
NoRc == -1            \* proc.returncode is None
GraceTimeout == 5     \* wait_for(proc.wait(), timeout=5.0)
KillTimeout == 3      \* wait_for(proc.wait(), timeout=3.0)

Children == 1..MaxChildren
Calls == 1..MaxCalls
Streams == {"stdout", "stderr"}
ExitCodes == 0..MaxExitCode
Readers == Children \X Streams
Procs == 1..MaxProcs
Controllers == 1..MaxControllers
AppStops == 1..MaxAppStops

VARIABLES
  proc,          \* self._proc: NoProc or the child the handle refers to
  readerTasks,   \* self._reader_tasks: the reader tasks the list holds
  waitTask,      \* self._wait_task: the watcher task last created (0: None)
  nspawned,      \* children forked so far; child c exists iff c <= nspawned
  returncode,    \* returncode[c]: NoRc while child c has not been reaped
  stdinClosed,   \* stdinClosed[c]: proc.stdin.close() was called on child c
  written,       \* written[<<c, s>>]: lines child c wrote to stream s
  rstate,        \* rstate[<<c, s>>]: state of the _read_stream task
  nread,         \* nread[<<c, s>>]: lines the reader task has read
  watch,         \* watch[w]: the _wait_for_exit task created with child w
  calls,         \* calls[k]: a call of a public coroutine in flight
  out,           \* what the last step did to the outside, in order: log
                 \* sink and status callback invocations, signals, pipe
                 \* writes, handle releases, returns
  lastStatus,    \* the argument of the last on_status call
  max_messages,  \* LogBuffer.max_messages
  messages,      \* LogBuffer._messages
  appended,      \* the messages appended since construction or clear()
  rendered,      \* the width and the result of the render() just made
  warmed,        \* StatsSampler._warmed
  cpu_history_size,  \* the cpu_history_size the StatsSampler was made with
  cpu_count,     \* StatsSampler._cpu_count
  cpu_history,   \* StatsSampler._cpu_history, in 1/cpu_count percent
  readings,      \* the clamped readings of the calls past the warm-up, in
                 \* 1/cpu_count percent
  nsampled,      \* nsampled[p]: sample() calls made so far for process p
  lastSample,    \* the sample() just made: what it was given and returned
  controller,    \* BedruxMonitorApp.controller: 0 for None, or the instance
  controllers,   \* controllers[i]: the i-th ServerController the application
                 \* made, with the child it spawned
  server_start_time,  \* BedruxMonitorApp._server_start_time is set
  online,        \* the argument of the last _set_online call
  stops,         \* stops[j]: a stop_if_running() call in flight
  sends,         \* on_input_submitted() calls suspended in drain()
  appOut         \* what the last step of the application did to the
                 \* outside, in order

vars == <<proc, readerTasks, waitTask, nspawned, returncode, stdinClosed,
          written, rstate, nread, watch, calls, out, lastStatus,
          max_messages, messages, appended, rendered,
          warmed, cpu_history_size, cpu_count, cpu_history, readings,
          nsampled, lastSample,
          controller, controllers, server_start_time, online, stops, sends,
          appOut>>

(* the ServerController with its child processes *)
controllerVars == <<proc, readerTasks, waitTask, nspawned, returncode, stdinClosed,
                    written, rstate, nread, watch, calls, out, lastStatus>>
(* the LogBuffer *)
bufferVars == <<max_messages, messages, appended, rendered>>
(* the StatsSampler *)
samplerVars == <<warmed, cpu_history_size, cpu_count, cpu_history, readings,
                 nsampled, lastSample>>
(* the BedruxMonitorApp with the controllers it makes *)
orchVars == <<controller, controllers, server_start_time, online, stops, sends,
              appOut>>
(* what no coroutine of the controller touches *)
appVars == <<bufferVars, samplerVars, orchVars>>

ctlVars == <<proc, readerTasks, waitTask>>
childVars == <<nspawned, returncode, stdinClosed, written>>

(* ---- what a step does to the outside ---- *)
Ev(kind, what, c, v) == <<kind, what, c, v>>
LogEv(what, c, v) == Ev("log", what, c, v)
StatusEv(b, c) == Ev("status", IF b THEN "true" ELSE "false", c, 0)
SignalEv(sig, c, route) == Ev(sig, route, c, 0)
ReleaseEv(who, c) == Ev("release", who, c, 0)
ReturnEv(op, k) == Ev("return", op, k, 0)
RaiseEv(op, k) == Ev("raise", op, k, 0)
(* stdin.write(data) on child c: the bytes of data, in order *)
WriteEv(data, c) == [i \in 1..Len(data) |-> Ev("byte", "stdin", c, data[i])]

Emits(e) == \E i \in 1..Len(out) : out[i] = e
EmitsKind(kind) == \E i \in 1..Len(out) : out[i][1] = kind

IdleCall == [op |-> "none", pc |-> "idle", proc |-> NoProc, tasks |-> {}, timer |-> 0,
             term |-> "no", kill |-> "no"]
NoWatch == [pc |-> "none", proc |-> NoProc, tasks |-> {}]

(* is_running() without the look at returncode *)
is_running_HandleOnly == proc # NoProc

(* ServerController.is_running *)
is_running == proc # NoProc /\ returncode[proc] = NoRc

(* ServerController.pid: the child's number stands for its pid *)
pid == IF proc # NoProc THEN proc ELSE NoProc

(* a child process that was forked and has not exited *)
Alive(c) == c <= nspawned /\ returncode[c] = NoRc
AliveChildren == {c \in Children : Alive(c)}

(* [t for t in self._reader_tasks if not t.done()] *)
NotDone(tasks) == {t \in tasks : rstate[t] # "done"}

(* for t in tasks: t.cancel() *)
Cancel(tasks) == [t \in Readers |-> IF t \in tasks /\ rstate[t] = "running"
                                       THEN "cancelled" ELSE rstate[t]]

(* the routes on which a signal can reach child c: os.killpg on the group,  *)
(* else proc.terminate()/proc.kill() on the process, else the failure is    *)
(* swallowed.  A reaped child has no process to look up: both routes fail. *)
SignalRoutes(c) == IF returncode[c] = NoRc THEN {"group", "single", "failed"}
                   ELSE {"failed"}

(* what stop() has done about a signal: it went out, or both routes raised *)
Outcome(route) == IF route = "failed" THEN "failed" ELSE "sent"

(* self._on_status(b) *)
Status(b) == IF b THEN "true" ELSE "false"

(* ServerController.__init__ *)
ControllerNew ==
  /\ proc = NoProc
  /\ readerTasks = {}
  /\ waitTask = 0
  /\ nspawned = 0
  /\ returncode = [c \in Children |-> NoRc]
  /\ stdinClosed = [c \in Children |-> FALSE]
  /\ written = [t \in Readers |-> 0]
  /\ rstate = [t \in Readers |-> "none"]
  /\ nread = [t \in Readers |-> 0]
  /\ watch = [w \in Children |-> NoWatch]
  /\ calls = [k \in Calls |-> IdleCall]
  /\ out = <<>>
  /\ lastStatus = "none"

(* no render() has been made *)
NoRender == [done |-> FALSE, width |-> 0, lines |-> <<>>]

(* LogBuffer(max_messages=m) *)
BufferNew(m) ==
  /\ max_messages = m
  /\ messages = <<>>
  /\ appended = <<>>
  /\ rendered = NoRender

(* no sample() has been made *)
NoSample == [proc |-> 0, result |-> "no call", tree |-> <<>>, enumerated |-> FALSE,
             sys |-> [ok |-> FALSE, v |-> 0], total |-> [ok |-> FALSE, v |-> 0],
             cpu_percent |-> [num |-> 0, den |-> 1], sys_cpu_percent |-> 0,
             raw_cpu_sum |-> 0, rss_mb |-> 0, total_ram_mb |-> 0]

(* StatsSampler.__init__ *)
SamplerNew(size, cores) ==
  /\ warmed = FALSE
  /\ cpu_history_size = size
  /\ cpu_count = (IF cores = 0 THEN 1 ELSE cores)
  /\ cpu_history = <<>>
  /\ readings = <<>>
  /\ nsampled = [p \in Procs |-> 0]
  /\ lastSample = NoSample

(* a ServerController that was not made yet *)
NoController == [start |-> "none", proc |-> FALSE, child |-> "none",
                 stdin |-> "none", watch |-> "none",
                 rd |-> [s \in Streams |-> "none"],
                 nread |-> [s \in Streams |-> 0]]
NoStop == [pc |-> "idle", i |-> 0]

(* BedruxMonitorApp.__init__, its LogBuffer and StatsSampler apart *)
AppNew ==
  /\ controller = 0
  /\ controllers = [i \in Controllers |-> NoController]
  /\ server_start_time = FALSE
  /\ online = FALSE
  /\ stops = [j \in AppStops |-> NoStop]
  /\ sends = 0
  /\ appOut = <<>>

(* the application as constructed: AppConfig.log_buffer_max messages kept, *)
(* AppConfig.cpu_history_size readings smoothed, on a machine of one core  *)
Init ==
  /\ ControllerNew
  /\ BufferNew(log_buffer_max)
  /\ SamplerNew(config_cpu_history_size, 1)
  /\ AppNew

(* ------------------------------------------------------------------ *)
(* The child process and the passing of time (environment).            *)
(* ------------------------------------------------------------------ *)

(* child c writes one more line to stream s *)
ChildWrite(c, s) ==
  /\ Alive(c)
  /\ written[<<c, s>>] < MaxLines
  /\ written' = [written EXCEPT ![<<c, s>>] = @ + 1]
  /\ out' = <<>>
  /\ UNCHANGED <<ctlVars, nspawned, returncode, stdinClosed,
                 rstate, nread, watch, calls, lastStatus>>
  /\ UNCHANGED appVars

(* child c exits with code rc and the event loop reaps it: from now on    *)
(* proc.returncode is rc and every proc.wait() on it can return           *)
ChildExit(c, rc) ==
  /\ Alive(c)
  /\ returncode' = [returncode EXCEPT ![c] = rc]
  /\ out' = <<>>
  /\ UNCHANGED <<ctlVars, nspawned, stdinClosed, written,
                 rstate, nread, watch, calls, lastStatus>>
  /\ UNCHANGED appVars

(* the calls suspended in asyncio.wait_for(proc.wait(), timeout=...) *)
Timed(k) == calls[k].pc \in {"wait_term", "wait_kill"}
Timeout(k) == IF calls[k].pc = "wait_term" THEN GraceTimeout ELSE KillTimeout

(* the time left until the earliest pending timeout *)
NextDeadline ==
  LET left == {Timeout(k) - calls[k].timer : k \in {j \in Calls : Timed(j)}}
  IN CHOOSE d \in left : \A e \in left : d <= e

(* time passes until the earliest pending timeout is due; a timeout that   *)
(* is due fires before more time passes                                    *)
Tick ==
  /\ \E k \in Calls : Timed(k)
  /\ \A k \in Calls : Timed(k) => calls[k].timer < Timeout(k)
  /\ calls' = [k \in Calls |-> IF Timed(k)
                                 THEN [calls[k] EXCEPT !.timer = @ + NextDeadline]
                                 ELSE calls[k]]
  /\ out' = <<>>
  /\ UNCHANGED <<ctlVars, childVars, rstate, nread, watch, lastStatus>>
  /\ UNCHANGED appVars

(* ------------------------------------------------------------------ *)
(* ServerController._read_stream                                        *)
(* ------------------------------------------------------------------ *)

(* a reader that logs the line it logged last once more *)
ReaderLine_Redelivers(c, s) ==
  /\ rstate[<<c, s>>] = "running"
  /\ nread[<<c, s>>] < written[<<c, s>>]
  /\ \/ /\ nread' = [nread EXCEPT ![<<c, s>>] = @ + 1]
        /\ out' = <<LogEv(s, c, nread[<<c, s>>] + 1)>>
     \/ /\ nread[<<c, s>>] > 0
        /\ out' = <<LogEv(s, c, nread[<<c, s>>])>>
        /\ UNCHANGED nread
  /\ UNCHANGED <<ctlVars, childVars, rstate, watch, calls, lastStatus>>
  /\ UNCHANGED appVars

(* a reader that takes a line off the pipe and does not log it *)
ReaderLine_ReadsSilently(c, s) ==
  /\ rstate[<<c, s>>] = "running"
  /\ nread[<<c, s>>] < written[<<c, s>>]
  /\ nread' = [nread EXCEPT ![<<c, s>>] = @ + 1]
  /\ out' = <<>>
  /\ UNCHANGED <<ctlVars, childVars, rstate, watch, calls, lastStatus>>
  /\ UNCHANGED appVars

(* line = await stream.readline(); self._log(cleaned) *)
ReaderLine(c, s) ==
  /\ rstate[<<c, s>>] = "running"
  /\ nread[<<c, s>>] < written[<<c, s>>]
  /\ nread' = [nread EXCEPT ![<<c, s>>] = @ + 1]
  /\ out' = <<LogEv(s, c, nread[<<c, s>>] + 1)>>
  /\ UNCHANGED <<ctlVars, childVars, rstate, watch, calls, lastStatus>>
  /\ UNCHANGED appVars

(* readline() returns b"" at end of input: the child is gone and every    *)
(* line it wrote has been read; the task finishes                          *)
ReaderEof(c, s) ==
  /\ rstate[<<c, s>>] = "running"
  /\ returncode[c] # NoRc
  /\ nread[<<c, s>>] = written[<<c, s>>]
  /\ rstate' = [rstate EXCEPT ![<<c, s>>] = "done"]
  /\ out' = <<>>
  /\ UNCHANGED <<ctlVars, childVars, nread, watch, calls, lastStatus>>
  /\ UNCHANGED appVars

(* a cancelled reader runs once more, gets CancelledError and finishes *)
ReaderCancelled(c, s) ==
  /\ rstate[<<c, s>>] = "cancelled"
  /\ rstate' = [rstate EXCEPT ![<<c, s>>] = "done"]
  /\ out' = <<>>
  /\ UNCHANGED <<ctlVars, childVars, nread, watch, calls, lastStatus>>
  /\ UNCHANGED appVars

(* ------------------------------------------------------------------ *)
(* ServerController._wait_for_exit                                      *)
(* ------------------------------------------------------------------ *)

(* self._proc = None; self._on_status(False), by stop() or by the watcher  *)
(* that dealt with child c                                                 *)
Released(who, c) == <<ReleaseEv(who, proc), StatusEv(FALSE, c)>>

(* first run of the task: proc = self._proc; if not proc: return *)
WatcherStart(w) ==
  /\ watch[w].pc = "new"
  /\ watch' = [watch EXCEPT ![w] = IF proc = NoProc
                                     THEN [NoWatch EXCEPT !.pc = "done"]
                                     ELSE [NoWatch EXCEPT !.pc = "waiting", !.proc = proc]]
  /\ out' = <<>>
  /\ UNCHANGED <<ctlVars, childVars, rstate, nread, calls, lastStatus>>
  /\ UNCHANGED appVars

(* await proc.wait() returns; the exit is logged; _cancel_readers() either *)
(* suspends in gather() or, with no reader left, the handle is released    *)
WatcherExit(w) ==
  LET c == watch[w].proc
      tasks == NotDone(readerTasks)
      logged == <<LogEv("Server exited", c, returncode[c])>>
  IN /\ watch[w].pc = "waiting"
     /\ returncode[c] # NoRc
     /\ IF tasks # {}
          THEN /\ rstate' = Cancel(tasks)
               /\ watch' = [watch EXCEPT ![w].pc = "cancel_readers", ![w].tasks = tasks]
               /\ out' = logged
               /\ UNCHANGED <<proc, readerTasks, lastStatus>>
          ELSE /\ readerTasks' = {}
               /\ proc' = NoProc
               /\ out' = logged \o Released("watcher", c)
               /\ lastStatus' = Status(FALSE)
               /\ watch' = [watch EXCEPT ![w] = [NoWatch EXCEPT !.pc = "done"]]
               /\ UNCHANGED rstate
     /\ UNCHANGED <<waitTask, childVars, nread, calls>>
     /\ UNCHANGED appVars

(* the watcher's teardown without self._reader_tasks = [] *)
WatcherReadersDone_KeepsReaders(w) ==
  /\ watch[w].pc = "cancel_readers"
  /\ \A t \in watch[w].tasks : rstate[t] = "done"
  /\ proc' = NoProc
  /\ out' = Released("watcher", watch[w].proc)
  /\ lastStatus' = Status(FALSE)
  /\ watch' = [watch EXCEPT ![w] = [NoWatch EXCEPT !.pc = "done"]]
  /\ UNCHANGED <<readerTasks, waitTask, childVars, rstate, nread, calls>>
  /\ UNCHANGED appVars

(* gather() returns: self._reader_tasks = []; self._proc = None;           *)
(* self._on_status(False)                                                  *)
WatcherReadersDone(w) ==
  /\ watch[w].pc = "cancel_readers"
  /\ \A t \in watch[w].tasks : rstate[t] = "done"
  /\ readerTasks' = {}
  /\ proc' = NoProc
  /\ out' = Released("watcher", watch[w].proc)
  /\ lastStatus' = Status(FALSE)
  /\ watch' = [watch EXCEPT ![w] = [NoWatch EXCEPT !.pc = "done"]]
  /\ UNCHANGED <<waitTask, childVars, rstate, nread, calls>>
  /\ UNCHANGED appVars

(* ------------------------------------------------------------------ *)
(* ServerController.start                                               *)
(* ------------------------------------------------------------------ *)

(* a call of a public coroutine begins (in the lowest free slot) *)
CallBegins(k) ==
  /\ calls[k] = IdleCall
  /\ \A j \in Calls : j < k => calls[j] # IdleCall

InCall(k, op, pc) == calls[k].op = op /\ calls[k].pc = pc

(* start() whose failed spawn still reports the server online *)
StartBegin_FailReportsOnline(k) ==
  /\ CallBegins(k)
  /\ IF is_running
       THEN /\ out' = <<LogEv("Server is already running.", proc, 0),
                        ReturnEv("start", k)>>
            /\ UNCHANGED <<calls, nspawned, lastStatus>>
       ELSE \/ /\ nspawned < MaxChildren
               /\ nspawned' = nspawned + 1
               /\ calls' = [calls EXCEPT ![k] = [IdleCall EXCEPT !.op = "start",
                              !.pc = "spawning", !.proc = nspawned + 1]]
               /\ out' = <<LogEv("Starting server", 0, 0)>>
               /\ UNCHANGED lastStatus
            \/ /\ out' = <<LogEv("Starting server", 0, 0), StatusEv(TRUE, 0),
                            RaiseEv("start", k)>>
               /\ lastStatus' = Status(TRUE)
               /\ UNCHANGED <<calls, nspawned>>
  /\ UNCHANGED <<ctlVars, returncode, stdinClosed, written,
                 rstate, nread, watch>>
  /\ UNCHANGED appVars

(* start() up to the await of create_subprocess_shell: the already-running *)
(* check, the log line and the fork of the child (or its failure, which    *)
(* propagates to the caller)                                               *)
StartBegin(k) ==
  /\ CallBegins(k)
  /\ IF is_running
       THEN /\ out' = <<LogEv("Server is already running.", proc, 0),
                        ReturnEv("start", k)>>
            /\ UNCHANGED <<calls, nspawned>>
       ELSE \/ /\ nspawned < MaxChildren
               /\ nspawned' = nspawned + 1
               /\ calls' = [calls EXCEPT ![k] = [IdleCall EXCEPT !.op = "start",
                              !.pc = "spawning", !.proc = nspawned + 1]]
               /\ out' = <<LogEv("Starting server", 0, 0)>>
            \/ /\ out' = <<LogEv("Starting server", 0, 0), RaiseEv("start", k)>>
               /\ UNCHANGED <<calls, nspawned>>
  /\ UNCHANGED <<ctlVars, returncode, stdinClosed, written,
                 rstate, nread, watch, lastStatus>>
  /\ UNCHANGED appVars

(* start() that logs the started line before it reports the status, and   *)
(* launches the stdout reader only                                         *)
StartSpawned_OneReader(k) ==
  LET c == calls[k].proc
      readers == {<<c, "stdout">>}
  IN /\ InCall(k, "start", "spawning")
     /\ proc' = c
     /\ out' = <<LogEv("Server started", c, 0), StatusEv(TRUE, c), ReturnEv("start", k)>>
     /\ lastStatus' = Status(TRUE)
     /\ rstate' = [t \in Readers |-> IF t \in readers THEN "running" ELSE rstate[t]]
     /\ readerTasks' = readers
     /\ watch' = [watch EXCEPT ![c] = [NoWatch EXCEPT !.pc = "new"]]
     /\ waitTask' = c
     /\ calls' = [calls EXCEPT ![k] = IdleCall]
     /\ UNCHANGED <<childVars, nread>>
     /\ UNCHANGED appVars

(* create_subprocess_shell returns: self._proc is set, on_status(True),    *)
(* the started line, two reader tasks and the watcher task are created     *)
StartSpawned(k) ==
  LET c == calls[k].proc
      readers == {<<c, s>> : s \in Streams}
  IN /\ InCall(k, "start", "spawning")
     /\ proc' = c
     /\ out' = <<StatusEv(TRUE, c), LogEv("Server started", c, 0), ReturnEv("start", k)>>
     /\ lastStatus' = Status(TRUE)
     /\ rstate' = [t \in Readers |-> IF t \in readers THEN "running" ELSE rstate[t]]
     /\ readerTasks' = readers
     /\ watch' = [watch EXCEPT ![c] = [NoWatch EXCEPT !.pc = "new"]]
     /\ waitTask' = c
     /\ calls' = [calls EXCEPT ![k] = IdleCall]
     /\ UNCHANGED <<childVars, nread>>
     /\ UNCHANGED appVars

(* ------------------------------------------------------------------ *)
(* ServerController.stop                                                *)
(* ------------------------------------------------------------------ *)

(* _close_stdin: stdin.close(), then the await of stdin.wait_closed() *)
CloseStdin(c) == [stdinClosed EXCEPT ![c] = TRUE]

(* stop() up to its first await: no handle, no-op; else the log line and   *)
(* _cancel_readers(), which suspends in gather() if a reader is not done   *)
(* and else runs on into _close_stdin                                      *)
StopCall(k) ==
  LET tasks == NotDone(readerTasks)
  IN /\ CallBegins(k)
     /\ IF proc = NoProc
          THEN /\ out' = <<ReturnEv("stop", k)>>
               /\ UNCHANGED <<calls, readerTasks, stdinClosed, rstate>>
          ELSE /\ out' = <<LogEv("Stopping server...", proc, 0)>>
               /\ IF tasks # {}
                    THEN /\ rstate' = Cancel(tasks)
                         /\ calls' = [calls EXCEPT ![k] = [IdleCall EXCEPT !.op = "stop",
                                        !.pc = "cancel_readers", !.proc = proc, !.tasks = tasks]]
                         /\ UNCHANGED <<readerTasks, stdinClosed>>
                    ELSE /\ readerTasks' = {}
                         /\ stdinClosed' = CloseStdin(proc)
                         /\ calls' = [calls EXCEPT ![k] = [IdleCall EXCEPT !.op = "stop",
                                        !.pc = "close_stdin", !.proc = proc]]
                         /\ UNCHANGED rstate
     /\ UNCHANGED <<proc, waitTask, nspawned, returncode, written,
                    nread, watch, lastStatus>>
     /\ UNCHANGED appVars

(* the calls of stop() in flight *)
Stopping == {j \in Calls : calls[j].op = "stop"}

(* a call of stop() while fewer than MaxStops are in flight *)
StopBegin(k) == Cardinality(Stopping) < MaxStops /\ StopCall(k)

(* a call of stop() while fewer than MaxOverlap are in flight *)
StopOverlap(k) == Cardinality(Stopping) < MaxOverlap /\ StopCall(k)

(* gather() returns: self._reader_tasks = []; then _close_stdin(proc) *)
StopReadersDone(k) ==
  /\ InCall(k, "stop", "cancel_readers")
  /\ \A t \in calls[k].tasks : rstate[t] = "done"
  /\ readerTasks' = {}
  /\ stdinClosed' = CloseStdin(calls[k].proc)
  /\ calls' = [calls EXCEPT ![k].pc = "close_stdin", ![k].tasks = {}]
  /\ out' = <<>>
  /\ UNCHANGED <<proc, waitTask, nspawned, returncode, written,
                 rstate, nread, watch, lastStatus>>
  /\ UNCHANGED appVars

(* _terminate_process going straight to its first wait, no SIGTERM *)
StopSendTerm_NoSignal(k) ==
  /\ InCall(k, "stop", "close_stdin")
  /\ calls' = [calls EXCEPT ![k].pc = "wait_term", ![k].timer = 0]
  /\ out' = <<>>
  /\ UNCHANGED <<ctlVars, childVars, rstate, nread, watch, lastStatus>>
  /\ UNCHANGED appVars

(* wait_closed() returns or raises (the error is dropped); then            *)
(* _terminate_process sends SIGTERM on one of the routes and suspends in   *)
(* wait_for(proc.wait(), timeout=5.0)                                      *)
StopSendTerm(k) ==
  LET c == calls[k].proc
  IN /\ InCall(k, "stop", "close_stdin")
     /\ \E route \in SignalRoutes(c) :
          /\ out' = <<SignalEv("SIGTERM", c, route)>>
          /\ calls' = [calls EXCEPT ![k].pc = "wait_term", ![k].timer = 0,
                                    ![k].term = Outcome(route)]
     /\ UNCHANGED <<ctlVars, childVars, rstate, nread, watch, lastStatus>>
     /\ UNCHANGED appVars

(* stop() returning without self._proc = None *)
StopReturns_KeepsHandle(k) ==
  /\ out' = <<StatusEv(FALSE, calls[k].proc), ReturnEv("stop", k)>>
  /\ lastStatus' = Status(FALSE)
  /\ calls' = [calls EXCEPT ![k] = IdleCall]
  /\ UNCHANGED <<ctlVars, childVars, rstate, nread, watch>>
  /\ UNCHANGED appVars

(* _terminate_process returned: self._proc = None; self._on_status(False) *)
StopReturns(k) ==
  /\ proc' = NoProc
  /\ out' = Released("stop", calls[k].proc) \o <<ReturnEv("stop", k)>>
  /\ lastStatus' = Status(FALSE)
  /\ calls' = [calls EXCEPT ![k] = IdleCall]
  /\ UNCHANGED <<readerTasks, waitTask, childVars, rstate, nread, watch>>
  /\ UNCHANGED appVars

(* the child exited within the grace period *)
StopTermExited(k) ==
  /\ InCall(k, "stop", "wait_term")
  /\ returncode[calls[k].proc] # NoRc
  /\ StopReturns(k)

(* asyncio.TimeoutError after 5.0: the force-kill line, SIGKILL on one of   *)
(* the routes, then wait_for(proc.wait(), timeout=3.0)                      *)
StopTermTimeout(k) ==
  LET c == calls[k].proc
  IN /\ InCall(k, "stop", "wait_term")
     /\ calls[k].timer = GraceTimeout
     /\ returncode[c] = NoRc
     /\ \E route \in SignalRoutes(c) :
          /\ out' = <<LogEv("Server did not stop in time; force killing...", c, 0),
                      SignalEv("SIGKILL", c, route)>>
          /\ calls' = [calls EXCEPT ![k].pc = "wait_kill", ![k].timer = 0,
                                    ![k].kill = Outcome(route)]
     /\ UNCHANGED <<ctlVars, childVars, rstate, nread, watch, lastStatus>>
     /\ UNCHANGED appVars

(* the child exited within 3.0 of the kill *)
StopKillExited(k) ==
  /\ InCall(k, "stop", "wait_kill")
  /\ returncode[calls[k].proc] # NoRc
  /\ StopReturns(k)

(* the second wait_for timed out: except Exception: await proc.wait() *)
StopKillTimeout(k) ==
  /\ InCall(k, "stop", "wait_kill")
  /\ calls[k].timer = KillTimeout
  /\ returncode[calls[k].proc] = NoRc
  /\ calls' = [calls EXCEPT ![k].pc = "wait_forever", ![k].timer = 0]
  /\ out' = <<>>
  /\ UNCHANGED <<ctlVars, childVars, rstate, nread, watch, lastStatus>>
  /\ UNCHANGED appVars

(* the wait without timeout returns *)
StopForeverExited(k) ==
  /\ InCall(k, "stop", "wait_forever")
  /\ returncode[calls[k].proc] # NoRc
  /\ StopReturns(k)

(* ------------------------------------------------------------------ *)
(* ServerController.send_command                                        *)
(* ------------------------------------------------------------------ *)

(* a text is the sequence of its code points *)
SayHi == <<115, 97, 121, 32, 104, 105>>
Commands == {SayHi}

NewLine == 10          \* "\n"
QuestionMark == 63     \* "?", what errors="replace" puts for a code point
                       \* that UTF-8 cannot encode

(* the code points UTF-8 has no encoding for: lone surrogates *)
IsSurrogate(cp) == cp >= 55296 /\ cp <= 57343

(* the UTF-8 encoding of one code point *)
Utf8(cp) ==
  IF cp < 128 THEN <<cp>>
  ELSE IF cp < 2048 THEN <<192 + (cp \div 64), 128 + (cp % 64)>>
  ELSE IF cp < 65536
    THEN <<224 + (cp \div 4096), 128 + ((cp \div 64) % 64), 128 + (cp % 64)>>
  ELSE <<240 + (cp \div 262144), 128 + ((cp \div 4096) % 64),
         128 + ((cp \div 64) % 64), 128 + (cp % 64)>>

(* text.encode("utf-8", errors="replace") *)
RECURSIVE Encode(_)
Encode(text) ==
  IF text = <<>> THEN <<>>
  ELSE (IF IsSurrogate(Head(text)) THEN <<QuestionMark>> ELSE Utf8(Head(text)))
       \o Encode(Tail(text))

(* a write without the "\n" *)
SendCommand_NoNewline(k, cmd) ==
  /\ CallBegins(k)
  /\ IF proc = NoProc
       THEN out' = <<LogEv("Server is not running.", 0, 0), ReturnEv("send", k)>>
       ELSE IF stdinClosed[proc] \/ returncode[proc] # NoRc
       THEN \E e \in {ReturnEv("send", k), RaiseEv("send", k)} : out' = <<e>>
       ELSE out' = WriteEv(Encode(cmd), proc) \o <<ReturnEv("send", k)>>
  /\ UNCHANGED <<ctlVars, nspawned, returncode, stdinClosed, written, rstate,
                 nread, watch, calls, lastStatus>>
  /\ UNCHANGED appVars

(* proc.stdin is a StreamWriter for every spawned child (stdin=PIPE), so    *)
(* "not self._proc.stdin" is false; a write to a pipe that was closed or    *)
(* whose child is gone is dropped, and drain() raises ConnectionResetError  *)
(* once the loop has seen the pipe close                                   *)
SendCommand(k, cmd) ==
  /\ CallBegins(k)
  /\ IF proc = NoProc
       THEN out' = <<LogEv("Server is not running.", 0, 0), ReturnEv("send", k)>>
       ELSE IF stdinClosed[proc] \/ returncode[proc] # NoRc
       THEN \E e \in {ReturnEv("send", k), RaiseEv("send", k)} : out' = <<e>>
       ELSE out' = WriteEv(Encode(cmd \o <<NewLine>>), proc) \o <<ReturnEv("send", k)>>
  /\ UNCHANGED <<ctlVars, nspawned, returncode, stdinClosed, written, rstate,
                 nread, watch, calls, lastStatus>>
  /\ UNCHANGED appVars

(* ------------------------------------------------------------------ *)
(* LogBuffer (log_buffer.py) and its helpers (util.py)                  *)
(* ------------------------------------------------------------------ *)

(* keep_last keeping the oldest items *)
keep_last_Oldest(items, max_items) ==
  IF max_items <= 0 THEN <<>>
  ELSE IF Len(items) <= max_items THEN items
  ELSE SubSeq(items, 1, max_items)

(* util.keep_last *)
keep_last(items, max_items) ==
  IF max_items <= 0 THEN <<>>
  ELSE IF Len(items) <= max_items THEN items
  ELSE SubSeq(items, Len(items) - max_items + 1, Len(items))

(* the code points str.splitlines() ends a line at; "\r\n" ends one line *)
LineBoundaries == {10, 11, 12, 13, 28, 29, 30, 133, 8232, 8233}

(* str.splitlines() from position i on, cur being the line begun *)
RECURSIVE SplitFrom(_, _, _)
SplitFrom(text, i, cur) ==
  IF i > Len(text) THEN (IF cur = <<>> THEN <<>> ELSE <<cur>>)
  ELSE IF text[i] \in LineBoundaries
    THEN <<cur>> \o SplitFrom(text,
                              IF text[i] = 13 /\ i < Len(text) /\ text[i + 1] = 10
                                THEN i + 2 ELSE i + 1,
                              <<>>)
  ELSE SplitFrom(text, i + 1, Append(cur, text[i]))

(* split_lines without the "or [""]" *)
split_lines_NoEmpty(text) == SplitFrom(text, 1, <<>>)

(* util.split_lines: str(text).splitlines() or [""] *)
split_lines(text) ==
  IF SplitFrom(text, 1, <<>>) = <<>> THEN << <<>> >> ELSE SplitFrom(text, 1, <<>>)

(* textwrap: expandtabs() from position i on at column col, then every     *)
(* whitespace character replaced by a space                                *)
RECURSIVE Munge(_, _, _)
Munge(text, i, col) ==
  IF i > Len(text) THEN <<>>
  ELSE IF text[i] = Tab
    THEN [j \in 1..(TabSize - (col % TabSize)) |-> Space]
         \o Munge(text, i + 1, col + TabSize - (col % TabSize))
  ELSE <<text[i]>> \o Munge(text, i + 1, col + 1)

IsSpace(cp) == cp = Space
AllSpace(chunk) == \A i \in 1..Len(chunk) : IsSpace(chunk[i])

(* the length of the first chunk of a text: a maximal run of spaces or of   *)
(* other characters (the texts carry no hyphen or dash to break at)         *)
RunLen(text) ==
  CHOOSE n \in 1..Len(text) :
    /\ \A i \in 1..n : IsSpace(text[i]) = IsSpace(text[1])
    /\ n = Len(text) \/ IsSpace(text[n + 1]) # IsSpace(text[1])

(* TextWrapper._split *)
RECURSIVE Chunks(_)
Chunks(text) ==
  IF text = <<>> THEN <<>>
  ELSE <<SubSeq(text, 1, RunLen(text))>>
       \o Chunks(SubSeq(text, RunLen(text) + 1, Len(text)))

RECURSIVE Join(_)
Join(chunks) == IF chunks = <<>> THEN <<>> ELSE Head(chunks) \o Join(Tail(chunks))

(* how many of the first chunks fit into width *)
RECURSIVE Fit(_, _)
Fit(chunks, width) ==
  IF chunks = <<>> \/ Len(Head(chunks)) > width THEN 0
  ELSE 1 + Fit(Tail(chunks), width - Len(Head(chunks)))

(* TextWrapper._wrap_chunks: the lines made of the chunks; nolines: no line *)
(* has been made yet                                                       *)
RECURSIVE WrapChunks(_, _, _)
WrapChunks(chunks, width, nolines) ==
  IF chunks = <<>> THEN <<>>
  ELSE
    LET c0 == IF AllSpace(Head(chunks)) /\ ~nolines THEN Tail(chunks) ELSE chunks
        n == Fit(c0, width)
        cur == SubSeq(c0, 1, n)
        rest == SubSeq(c0, n + 1, Len(c0))
        left == width - Len(Join(cur))
        long == rest # <<>> /\ Len(Head(rest)) > width
        cur2 == IF long THEN Append(cur, SubSeq(Head(rest), 1, left)) ELSE cur
        rest2 == IF long
                   THEN <<SubSeq(Head(rest), left + 1, Len(Head(rest)))>> \o Tail(rest)
                   ELSE rest
        cur3 == IF cur2 # <<>> /\ AllSpace(cur2[Len(cur2)])
                  THEN SubSeq(cur2, 1, Len(cur2) - 1) ELSE cur2
    IN (IF cur3 # <<>> THEN <<Join(cur3)>> ELSE <<>>)
       \o WrapChunks(rest2, width, nolines /\ cur3 = <<>>)

(* "\n".join(lines) *)
RECURSIVE JoinLines(_)
JoinLines(lines) ==
  IF lines = <<>> THEN <<>>
  ELSE IF Len(lines) = 1 THEN lines[1]
  ELSE lines[1] \o <<NewLine>> \o JoinLines(Tail(lines))

(* textwrap.fill(part, width=width) *)
Fill(part, width) == JoinLines(WrapChunks(Chunks(Munge(part, 1, 0)), width, TRUE))

(* render() wrapping at the width it is given *)
RenderWidth_AsGiven(width) == IF width < 1 THEN 1 ELSE width

(* width = max(20, int(width)) *)
RenderWidth(width) == IF width < MinWidth THEN MinWidth ELSE width

(* for part in split_lines(msg): rendered.append(textwrap.fill(part, ...)) *)
RECURSIVE FillAll(_, _)
FillAll(parts, width) ==
  IF parts = <<>> THEN <<>>
  ELSE <<Fill(Head(parts), width)>> \o FillAll(Tail(parts), width)

(* for msg in self._messages: ... *)
RECURSIVE RenderLines(_, _)
RenderLines(msgs, width) ==
  IF msgs = <<>> THEN <<>>
  ELSE FillAll(split_lines(Head(msgs)), width) \o RenderLines(Tail(msgs), width)

(* the messages appended and the widths rendered at *)
VeryLong == <<97, 32, 118, 101, 114, 121, 32, 108, 111, 110, 103, 32, 108, 105, 110, 101, 32, 111, 102, 32, 116, 101, 120, 116>>
Messages == {<<>>, VeryLong,
             <<97, 98, 10, 10, 99, 100>>,
             <<119, 119, 119, 119, 119, 119, 119, 119, 119, 119, 119, 119, 119, 119, 119, 119, 119, 119, 119, 119, 119, 119, 119, 119, 119>>,
             <<120, 9, 121, 32, 32, 122, 32>>,
             <<111, 110, 101, 13, 10, 116, 119, 111, 32, 116, 104, 114, 101, 101, 32, 102, 111, 117, 114, 32, 102, 105, 118, 101, 32, 115, 105, 120>>}
Widths == {-5, 0, 10, 20, 24, 30}
MaxMessagesValues == {-1, 0, 1, 2, 10}

(* an append() that adds the message to the text of the newest entry *)
append_Merges(message) ==
  /\ Len(appended) < MaxAppends
  /\ messages' = IF messages = <<>> THEN keep_last(<<message>>, max_messages)
                  ELSE [messages EXCEPT ![Len(messages)] = @ \o message]
  /\ appended' = Append(appended, message)
  /\ rendered' = NoRender
  /\ UNCHANGED <<max_messages, controllerVars, samplerVars, orchVars>>

(* LogBuffer.append *)
append(message) ==
  /\ Len(appended) < MaxAppends
  /\ messages' = keep_last(Append(messages, message), max_messages)
  /\ appended' = Append(appended, message)
  /\ rendered' = NoRender
  /\ UNCHANGED <<max_messages, controllerVars, samplerVars, orchVars>>

(* a render() that empties the store it has rendered *)
render_Drains(width) ==
  /\ rendered' = [done |-> TRUE, width |-> width,
                  lines |-> RenderLines(messages, RenderWidth(width))]
  /\ messages' = <<>>
  /\ UNCHANGED <<max_messages, appended, controllerVars, samplerVars, orchVars>>

(* LogBuffer.render *)
render(width) ==
  /\ rendered' = [done |-> TRUE, width |-> width,
                  lines |-> RenderLines(messages, RenderWidth(width))]
  /\ UNCHANGED <<max_messages, messages, appended, controllerVars, samplerVars,
                 orchVars>>

(* LogBuffer.clear *)
clear ==
  /\ messages' = <<>>
  /\ appended' = <<>>
  /\ rendered' = NoRender
  /\ UNCHANGED <<max_messages, controllerVars, samplerVars, orchVars>>

BufferInit ==
  /\ ControllerNew
  /\ SamplerNew(config_cpu_history_size, 1)
  /\ \E m \in MaxMessagesValues : BufferNew(m)
  /\ AppNew

NextBuffer ==
  \/ \E message \in Messages : append(message)
  \/ \E width \in Widths : render(width)
  \/ clear

BufferSpec == BufferInit /\ [][NextBuffer]_vars

(* ------------------------------------------------------------------ *)
(* StatsSampler (stats.py), the one sampler the application creates      *)
(* ------------------------------------------------------------------ *)

(* util.clamp without the upper limit *)
clamp_NoUpper(value, lo, hi) == IF value < lo THEN lo ELSE value

(* util.clamp *)
clamp(value, lo, hi) == IF value > hi THEN hi ELSE IF value < lo THEN lo ELSE value

(* int(a / b): the quotient cut towards zero *)
IntDiv(a, b) == IF a >= 0 THEN a \div b ELSE -((-a) \div b)

(* the reads of one process: p.cpu_percent(interval=None), then            *)
(* p.memory_info().rss, which is not reached when the first one raises     *)
Read(cpuOk, cpu, memOk, rss) == [cpuOk |-> cpuOk, cpu |-> cpu, memOk |-> memOk, rss |-> rss]
Vanished == Read(FALSE, 0, FALSE, 0)

(* procs = [proc] + proc.children(recursive=True), [proc] when that raises *)
Enumerated(tree, enumerated) == IF enumerated THEN tree ELSE <<tree[1]>>

(* cpu_sum += p.cpu_percent(interval=None), skipped when it raises *)
RECURSIVE CpuSum(_)
CpuSum(procs) ==
  IF procs = <<>> THEN 0
  ELSE (IF Head(procs).cpuOk THEN Head(procs).cpu ELSE 0) + CpuSum(Tail(procs))

(* rss_bytes += p.memory_info().rss, skipped when either read raises *)
RECURSIVE RssSum(_)
RssSum(procs) ==
  IF procs = <<>> THEN 0
  ELSE (IF Head(procs).cpuOk /\ Head(procs).memOk THEN Head(procs).rss ELSE 0)
       + RssSum(Tail(procs))

(* rss_mb = max(0, int(rss_bytes / 1024 / 1024)) *)
RssMb(rss_bytes) == IF IntDiv(rss_bytes, MiB) < 0 THEN 0 ELSE IntDiv(rss_bytes, MiB)

(* cpu_display: cpu_sum / cpu_count clamped to 0..100, in 1/cpu_count percent *)
CpuDisplay(cpu_sum) ==
  IF cpu_count # 0 THEN clamp(cpu_sum, 0 * cpu_count, MaxPercent * cpu_count)
  ELSE clamp(cpu_sum, 0, MaxPercent)

(* deque.append that never evicts *)
Push_Unbounded(history, value, maxlen) == Append(history, value)

(* a full history that drops the new value and keeps the oldest *)
Push_KeepsOldest(history, value, maxlen) ==
  IF Len(history) < maxlen THEN Append(history, value) ELSE history

(* deque(maxlen=maxlen).append(value) *)
Push(history, value, maxlen) ==
  IF Len(history) < maxlen THEN Append(history, value)
  ELSE Append(Tail(history), value)

(* deque(maxlen=max(1, int(cpu_history_size))) *)
Maxlen == IF cpu_history_size < 1 THEN 1 ELSE cpu_history_size

RECURSIVE Sum(_)
Sum(values) == IF values = <<>> THEN 0 ELSE Head(values) + Sum(Tail(values))

(* sum(self._cpu_history) / len(self._cpu_history), as a fraction of percent *)
Mean(history) == [num |-> Sum(history), den |-> cpu_count * Len(history)]

(* sys_cpu = float(psutil.cpu_percent(interval=None)), 0.0 when it raises *)
SysCpu(sys) == IF sys.ok THEN sys.v ELSE 0

(* total_ram_mb with no floor *)
TotalRamMb_NoFloor(total, rss_mb) == IF total.ok THEN IntDiv(total.v, MiB) ELSE 0

(* total_ram_mb = int(psutil.virtual_memory().total / 1024 / 1024),         *)
(* max(4096, rss_mb) when the read raises; max(1, total_ram_mb) is returned *)
TotalRamMb(total, rss_mb) ==
  LET total_ram_mb == IF total.ok THEN IntDiv(total.v, MiB)
                      ELSE IF rss_mb > RamFloor THEN rss_mb ELSE RamFloor
  IN IF total_ram_mb < 1 THEN 1 ELSE total_ram_mb

(* the process trees the sampler is given: the process alone; with a child; *)
(* gone; a child whose CPU read fails; a child whose memory read fails; a   *)
(* tree busier than the machine; readings below zero                        *)
Trees == { <<Read(TRUE, 10, TRUE, 3 * MiB)>>,
           <<Read(TRUE, 20, TRUE, 3 * MiB), Read(TRUE, 70, TRUE, 2 * MiB + 1)>>,
           <<Vanished>>,
           <<Read(TRUE, 20, TRUE, 3 * MiB), Read(FALSE, 0, FALSE, 0)>>,
           <<Read(TRUE, 20, TRUE, 3 * MiB), Read(TRUE, 70, FALSE, 0)>>,
           <<Read(TRUE, 150, TRUE, 1250 * MiB), Read(TRUE, 150, TRUE, MiB - 1)>>,
           <<Read(TRUE, -5, TRUE, -3 * MiB)>> }
(* psutil.cpu_percent(interval=None): raises, or the machine's load *)
SysReads == {[ok |-> FALSE, v |-> 0], [ok |-> TRUE, v |-> 37]}
(* psutil.virtual_memory().total: raises, or the machine's memory in bytes *)
TotalReads == {[ok |-> FALSE, v |-> 0], [ok |-> TRUE, v |-> 0],
               [ok |-> TRUE, v |-> 2000 * MiB]}

(* StatsSampler.sample(proc): the call that finds _warmed unset primes the *)
(* counters, sets _warmed and returns None; every other call returns a     *)
(* ResourceSample                                                         *)
sample(p, tree, enumerated, sys, total) ==
  LET procs == Enumerated(tree, enumerated)
      cpu_sum == CpuSum(procs)
      rss_mb == RssMb(RssSum(procs))
      cpu_display == CpuDisplay(cpu_sum)
      given == [proc |-> p, tree |-> tree, enumerated |-> enumerated,
                sys |-> sys, total |-> total]
  IN /\ nsampled' = [nsampled EXCEPT ![p] = @ + 1]
     /\ warmed' = TRUE
     /\ IF ~warmed
          THEN /\ lastSample' = given @@ [result |-> "not ready",
                                          cpu_percent |-> [num |-> 0, den |-> 1],
                                          sys_cpu_percent |-> 0, raw_cpu_sum |-> 0,
                                          rss_mb |-> 0, total_ram_mb |-> 0]
               /\ UNCHANGED <<cpu_history, readings>>
          ELSE /\ cpu_history' = Push(cpu_history, cpu_display, Maxlen)
               /\ readings' = Append(readings, cpu_display)
               /\ lastSample' = given @@ [result |-> "snapshot",
                                          cpu_percent |-> Mean(cpu_history'),
                                          sys_cpu_percent |-> SysCpu(sys),
                                          raw_cpu_sum |-> cpu_sum,
                                          rss_mb |-> rss_mb,
                                          total_ram_mb |-> TotalRamMb(total, rss_mb)]
     /\ UNCHANGED <<cpu_history_size, cpu_count, controllerVars, bufferVars,
                    orchVars>>

(* _tick_stats hands the sampler the process of the server of the moment *)
TickSample(p, tree, enumerated, sys, total) ==
  /\ nsampled[p] < MaxSamples
  /\ sample(p, tree, enumerated, sys, total)

(* psutil.cpu_count(logical=True): None (0) or the number of cores *)
Cores == {0, 2}

(* the sampler of the application on a machine of one or two cores *)
SamplerInit ==
  /\ ControllerNew
  /\ BufferNew(log_buffer_max)
  /\ \E cores \in Cores : SamplerNew(config_cpu_history_size, cores)
  /\ AppNew

NextSampler ==
  \E p \in Procs, tree \in Trees, enumerated \in BOOLEAN,
     sys \in SysReads, total \in TotalReads :
    TickSample(p, tree, enumerated, sys, total)

SamplerSpec == SamplerInit /\ [][NextSampler]_vars

(* the CPU readings of one process and the history sizes the smoothing is  *)
(* followed for                                                            *)
CpuReadings == {10, 20, 30, 90, 40, 60, 180}
HistorySizes == {0, 1, 3}

(* sample() of one process whose reads all succeed *)
SmoothSample(cpu) ==
  /\ Len(readings) < MaxReadings
  /\ sample(1, <<Read(TRUE, cpu, TRUE, 3 * MiB)>>, TRUE,
            [ok |-> TRUE, v |-> 37], [ok |-> TRUE, v |-> 2000 * MiB])

SmoothInit ==
  /\ ControllerNew
  /\ BufferNew(log_buffer_max)
  /\ \E size \in HistorySizes, cores \in Cores : SamplerNew(size, cores)
  /\ AppNew

NextSmooth == \E cpu \in CpuReadings : SmoothSample(cpu)

SmoothSpec == SmoothInit /\ [][NextSmooth]_vars

(* ------------------------------------------------------------------ *)
(* BedruxMonitorApp (app.py): the orchestrator.  It makes a new          *)
(* ServerController for every start, with write_console as the log sink  *)
(* and _set_online as the status callback, so each controller has its    *)
(* own handle, its own child, two readers and one watcher.  A step is    *)
(* what runs between two suspensions of the event loop.                  *)
(* ------------------------------------------------------------------ *)

(* controller i of the application: ServerController.is_running *)
AppIsRunning(i) == controllers[i].proc /\ controllers[i].child = "alive"

(* the children of the application's controllers that are alive *)
AppAlive == {i \in Controllers : controllers[i].child = "alive"}

(* the reader tasks of controller i that are not done *)
AppNotDone(i) == {s \in Streams : controllers[i].rd[s] \in {"running", "cancelled"}}

(* for t in tasks: t.cancel() *)
AppCancel(i) == [s \in Streams |-> IF controllers[i].rd[s] = "running"
                                     THEN "cancelled" ELSE controllers[i].rd[s]]

IsLog(e) == e[1] = "log"

(* the store after LogBuffer.append of each of msgs, in order *)
RECURSIVE AppendAll(_, _, _)
AppendAll(store, msgs, m) ==
  IF msgs = <<>> THEN store
  ELSE AppendAll(keep_last(Append(store, Head(msgs)), m), Tail(msgs), m)

(* a sink that stores every message twice *)
write_console_Twice(msgs) ==
  /\ Len(appended) + Len(msgs) <= MaxLogged
  /\ messages' = AppendAll(messages, msgs \o msgs, max_messages)
  /\ appended' = appended \o msgs
  /\ rendered' = NoRender
  /\ UNCHANGED max_messages

(* write_console(message) for each of msgs: self._log_buffer.append(...) *)
write_console(msgs) ==
  /\ Len(appended) + Len(msgs) <= MaxLogged
  /\ messages' = AppendAll(messages, msgs, max_messages)
  /\ appended' = appended \o msgs
  /\ rendered' = NoRender
  /\ UNCHANGED max_messages

(* a step of the application that does events to the outside: every log   *)
(* line of it, the controllers' included, goes through write_console      *)
AppStep(events) ==
  /\ appOut' = events
  /\ write_console(SelectSeq(events, IsLog))
  /\ UNCHANGED <<controllerVars, samplerVars>>

(* self._set_online(False) also clears _server_start_time *)
SetOffline ==
  /\ online' = FALSE
  /\ server_start_time' = FALSE

(* BedruxMonitorApp.start_installation up to the await of the spawn in    *)
(* ServerController.start, which a new controller always reaches          *)
start_installation ==
  IF controller # 0 /\ AppIsRunning(controller)
    THEN /\ AppStep(<<LogEv("Server is already running.", controller, 0)>>)
         /\ UNCHANGED <<controller, controllers, server_start_time, online,
                        stops, sends>>
    ELSE LET i == Cardinality({c \in Controllers : controllers[c].start # "none"}) + 1
         IN /\ i <= MaxControllers
            /\ controller' = i
            /\ controllers' = [controllers EXCEPT ![i].start = "spawning"]
            /\ server_start_time' = TRUE
            /\ AppStep(<<LogEv("Starting server", i, 0)>>)
            /\ UNCHANGED <<online, stops, sends>>

(* create_subprocess_shell returned in start() of controller i: the rest  *)
(* of start() and the return of start_installation.  The watcher takes    *)
(* proc = self._proc when it first runs, before any stop() of this        *)
(* controller, which begins after this step, can have released the handle *)
AppStartSpawned(i) ==
  /\ controllers[i].start = "spawning"
  /\ controllers' = [controllers EXCEPT
                       ![i] = [start |-> "done", proc |-> TRUE, child |-> "alive",
                               stdin |-> "open", watch |-> "waiting",
                               rd |-> [s \in Streams |-> "running"],
                               nread |-> [s \in Streams |-> 0]]]
  /\ online' = TRUE
  /\ AppStep(<<StatusEv(TRUE, i), LogEv("Server started", i, 0)>>)
  /\ UNCHANGED <<controller, server_start_time, stops, sends>>

(* create_subprocess_shell raised: the except branch of start_installation *)
AppStartFailed(i) ==
  /\ controllers[i].start = "spawning"
  /\ controllers' = [controllers EXCEPT ![i].start = "failed"]
  /\ SetOffline
  /\ AppStep(<<LogEv("Failed to start server", i, 0), StatusEv(FALSE, i)>>)
  /\ UNCHANGED <<controller, stops, sends>>

(* the child of controller i exits and the event loop reaps it *)
AppChildExit(i) ==
  /\ controllers[i].child = "alive"
  /\ controllers' = [controllers EXCEPT ![i].child = "dead"]
  /\ AppStep(<<>>)
  /\ UNCHANGED <<controller, server_start_time, online, stops, sends>>

(* _read_stream of controller i: a line of stream s is read and logged *)
AppReaderLine(i, s) ==
  /\ controllers[i].rd[s] = "running"
  /\ controllers[i].nread[s] < MaxAppLines
  /\ controllers' = [controllers EXCEPT ![i].nread[s] = @ + 1]
  /\ AppStep(<<LogEv(s, i, controllers[i].nread[s] + 1)>>)
  /\ UNCHANGED <<controller, server_start_time, online, stops, sends>>

(* _read_stream of controller i ends: at end of input once the child is   *)
(* gone, or with CancelledError                                           *)
AppReaderDone(i, s) ==
  /\ \/ controllers[i].rd[s] = "cancelled"
     \/ controllers[i].rd[s] = "running" /\ controllers[i].child = "dead"
  /\ controllers' = [controllers EXCEPT ![i].rd[s] = "done"]
  /\ AppStep(<<>>)
  /\ UNCHANGED <<controller, server_start_time, online, stops, sends>>

(* _wait_for_exit of controller i: proc.wait() returned; the exit line,   *)
(* then _cancel_readers, which suspends only if a reader is not done      *)
AppWatcherExit(i) ==
  /\ controllers[i].watch = "waiting"
  /\ controllers[i].child = "dead"
  /\ IF AppNotDone(i) # {}
       THEN /\ controllers' = [controllers EXCEPT ![i].watch = "cancelling",
                                                  ![i].rd = AppCancel(i)]
            /\ AppStep(<<LogEv("Server exited", i, 0)>>)
            /\ UNCHANGED <<server_start_time, online>>
       ELSE /\ controllers' = [controllers EXCEPT ![i].watch = "done",
                                                  ![i].proc = FALSE]
            /\ SetOffline
            /\ AppStep(<<LogEv("Server exited", i, 0), ReleaseEv("watcher", i),
                         StatusEv(FALSE, i)>>)
  /\ UNCHANGED <<controller, stops, sends>>

(* the readers the watcher of controller i awaits are done:               *)
(* self._proc = None; self._on_status(False)                              *)
AppWatcherReadersDone(i) ==
  /\ controllers[i].watch = "cancelling"
  /\ AppNotDone(i) = {}
  /\ controllers' = [controllers EXCEPT ![i].watch = "done", ![i].proc = FALSE]
  /\ SetOffline
  /\ AppStep(<<ReleaseEv("watcher", i), StatusEv(FALSE, i)>>)
  /\ UNCHANGED <<controller, stops, sends>>

(* the finally branch of stop_if_running *)
StopFinally ==
  /\ SetOffline
  /\ controller' = 0

(* BedruxMonitorApp.stop_if_running up to the first suspension of         *)
(* ServerController.stop: none if the controller holds no handle; else    *)
(* in _cancel_readers if a reader is not done, else in _close_stdin       *)
stop_if_running(j) ==
  /\ stops[j].pc = "idle"
  /\ controller # 0
  /\ LET i == controller
     IN IF ~controllers[i].proc
          THEN /\ StopFinally
               /\ AppStep(<<StatusEv(FALSE, i)>>)
               /\ UNCHANGED <<controllers, stops, sends>>
          ELSE /\ IF AppNotDone(i) # {}
                    THEN /\ controllers' = [controllers EXCEPT ![i].rd = AppCancel(i)]
                         /\ stops' = [stops EXCEPT ![j] = [pc |-> "readers", i |-> i]]
                    ELSE /\ controllers' = [controllers EXCEPT ![i].stdin = "closed"]
                         /\ stops' = [stops EXCEPT ![j] = [pc |-> "closing", i |-> i]]
               /\ AppStep(<<LogEv("Stopping server...", i, 0)>>)
               /\ UNCHANGED <<controller, server_start_time, online, sends>>

(* stop_if_running() while self.controller is None returns at once *)
StopNoController ==
  /\ controller = 0
  /\ AppStep(<<>>)
  /\ UNCHANGED <<controller, controllers, server_start_time, online, stops, sends>>

(* the readers stop() awaits are done: stdin.close(), await wait_closed() *)
AppStopReadersDone(j) ==
  /\ stops[j].pc = "readers"
  /\ AppNotDone(stops[j].i) = {}
  /\ controllers' = [controllers EXCEPT ![stops[j].i].stdin = "closed"]
  /\ stops' = [stops EXCEPT ![j].pc = "closing"]
  /\ AppStep(<<>>)
  /\ UNCHANGED <<controller, server_start_time, online, sends>>

(* _terminate_process: SIGTERM, then wait_for(proc.wait(), 5.0) *)
AppStopSendTerm(j) ==
  /\ stops[j].pc = "closing"
  /\ stops' = [stops EXCEPT ![j].pc = "wait_term"]
  /\ AppStep(<<SignalEv("SIGTERM", stops[j].i, "sent")>>)
  /\ UNCHANGED <<controller, controllers, server_start_time, online, sends>>

(* the 5 s pass with the child alive: the force-kill line, SIGKILL, and   *)
(* the waits that follow, which end when the child is reaped              *)
AppStopTermTimeout(j) ==
  /\ stops[j].pc = "wait_term"
  /\ controllers[stops[j].i].child = "alive"
  /\ stops' = [stops EXCEPT ![j].pc = "wait_kill"]
  /\ AppStep(<<LogEv("Server did not stop in time; force killing...", stops[j].i, 0),
               SignalEv("SIGKILL", stops[j].i, "sent")>>)
  /\ UNCHANGED <<controller, controllers, server_start_time, online, sends>>

(* proc.wait() returned in _terminate_process: self._proc = None,         *)
(* self._on_status(False), and the finally branch of stop_if_running      *)
AppStopExited(j) ==
  /\ stops[j].pc \in {"wait_term", "wait_kill"}
  /\ controllers[stops[j].i].child = "dead"
  /\ controllers' = [controllers EXCEPT ![stops[j].i].proc = FALSE]
  /\ stops' = [stops EXCEPT ![j] = NoStop]
  /\ StopFinally
  /\ AppStep(<<ReleaseEv("stop", stops[j].i), StatusEv(FALSE, stops[j].i)>>)
  /\ UNCHANGED sends

(* the white space str.strip() removes, among the code points used here *)
StripSpace == {9, 10, 11, 12, 13, 28, 29, 30, 31, 32, 133, 160}

(* text.strip() *)
RECURSIVE strip(_)
strip(text) ==
  IF text = <<>> THEN <<>>
  ELSE IF Head(text) \in StripSpace THEN strip(Tail(text))
  ELSE IF text[Len(text)] \in StripSpace THEN strip(SubSeq(text, 1, Len(text) - 1))
  ELSE text

(* what is typed into the command input *)
Typed == {<<>>, <<32>>, SayHi, <<32>> \o SayHi \o <<32, 10>>}

(* on_input_submitted was called with a value that strips to command *)
InputEv(found, command) ==
  Ev("input", IF found THEN "found" ELSE "missing", 0, Len(command))

(* an on_input_submitted that writes the bytes before it logs the command *)
on_input_submitted_WritesFirst(value, found) ==
  LET command == strip(value)
      i == controller
      called == <<InputEv(found, command)>>
  IN /\ IF ~found \/ command = <<>>
          THEN AppStep(called) /\ UNCHANGED sends
          ELSE IF controller = 0 \/ ~AppIsRunning(controller)
          THEN AppStep(called \o <<LogEv("Server is not online.", 0, 0)>>)
               /\ UNCHANGED sends
          ELSE IF controllers[i].stdin = "closed"
          THEN /\ sends < MaxSends
               /\ sends' = sends + 1
               /\ AppStep(called \o <<LogEv("> command", i, Len(command))>>)
          ELSE /\ AppStep(called \o WriteEv(Encode(command \o <<NewLine>>), i)
                          \o <<LogEv("> command", i, Len(command))>>)
               /\ UNCHANGED sends
     /\ UNCHANGED <<controller, controllers, server_start_time, online, stops>>

(* BedruxMonitorApp.on_input_submitted with event.value = value; found:   *)
(* the active screen has the command input, else the handler returns      *)
(* after the look for it.  send_command runs to its drain() without       *)
(* suspension; a write to a pipe that stop() has closed is dropped, and    *)
(* drain() then suspends before it returns or raises                      *)
on_input_submitted(value, found) ==
  LET command == strip(value)
      i == controller
      called == <<InputEv(found, command)>>
  IN /\ IF ~found \/ command = <<>>
          THEN AppStep(called) /\ UNCHANGED sends
          ELSE IF controller = 0 \/ ~AppIsRunning(controller)
          THEN AppStep(called \o <<LogEv("Server is not online.", 0, 0)>>)
               /\ UNCHANGED sends
          ELSE IF controllers[i].stdin = "closed"
          THEN /\ sends < MaxSends
               /\ sends' = sends + 1
               /\ AppStep(called \o <<LogEv("> command", i, Len(command))>>)
          ELSE /\ AppStep(called \o <<LogEv("> command", i, Len(command))>>
                          \o WriteEv(Encode(command \o <<NewLine>>), i))
               /\ UNCHANGED sends
     /\ UNCHANGED <<controller, controllers, server_start_time, online, stops>>

(* drain() on the closed pipe returns, or raises and on_input_submitted   *)
(* logs the failure                                                       *)
AppDrainDone ==
  /\ sends > 0
  /\ sends' = sends - 1
  /\ \/ AppStep(<<>>)
     \/ AppStep(<<LogEv("Failed to send command", 0, 0)>>)
  /\ UNCHANGED <<controller, controllers, server_start_time, online, stops>>

(* the values AppConfig.log_buffer_max is given *)
LogMaxValues == {2, log_buffer_max}

AppInit ==
  /\ ControllerNew
  /\ SamplerNew(config_cpu_history_size, 1)
  /\ \E m \in LogMaxValues : BufferNew(m)
  /\ AppNew

NextApp ==
  \/ start_installation
  \/ \E i \in Controllers : AppStartSpawned(i)
  \/ \E i \in Controllers : AppStartFailed(i)
  \/ \E i \in Controllers : AppChildExit(i)
  \/ \E i \in Controllers, s \in Streams : AppReaderLine(i, s)
  \/ \E i \in Controllers, s \in Streams : AppReaderDone(i, s)
  \/ \E i \in Controllers : AppWatcherExit(i)
  \/ \E i \in Controllers : AppWatcherReadersDone(i)
  \/ \E j \in AppStops : stop_if_running(j)
  \/ StopNoController
  \/ \E j \in AppStops : AppStopReadersDone(j)
  \/ \E j \in AppStops : AppStopSendTerm(j)
  \/ \E j \in AppStops : AppStopTermTimeout(j)
  \/ \E j \in AppStops : AppStopExited(j)
  \/ \E value \in Typed, found \in BOOLEAN : on_input_submitted(value, found)
  \/ AppDrainDone

AppSpec == AppInit /\ [][NextApp]_vars

(* ------------------------------------------------------------------ *)

Next ==
  \/ \E c \in Children, rc \in ExitCodes : ChildExit(c, rc)
  \/ Tick
  \/ \E c \in Children, s \in Streams : ReaderEof(c, s)
  \/ \E c \in Children, s \in Streams : ReaderCancelled(c, s)
  \/ \E w \in Children : WatcherStart(w)
  \/ \E w \in Children : WatcherExit(w)
  \/ \E w \in Children : WatcherReadersDone(w)
  \/ \E k \in Calls : StartBegin(k)
  \/ \E k \in Calls : StartSpawned(k)
  \/ \E k \in Calls : StopBegin(k)
  \/ \E k \in Calls : StopReadersDone(k)
  \/ \E k \in Calls : StopSendTerm(k)
  \/ \E k \in Calls : StopTermExited(k)
  \/ \E k \in Calls : StopTermTimeout(k)
  \/ \E k \in Calls : StopKillExited(k)
  \/ \E k \in Calls : StopKillTimeout(k)
  \/ \E k \in Calls : StopForeverExited(k)
  \/ \E k \in Calls, cmd \in Commands : SendCommand(k, cmd)

Spec == Init /\ [][Next]_vars

(* ---- scheduling ---- *)
(* the event loop runs every task that is ready: a step of a reader, of a  *)
(* watcher or of a suspended start() or stop() that can be taken is taken  *)
ReaderStep(c, s) == ReaderEof(c, s) \/ ReaderCancelled(c, s)
WatcherStep(w) == WatcherStart(w) \/ WatcherExit(w) \/ WatcherReadersDone(w)
CallStep(k) ==
  \/ StartSpawned(k)
  \/ StopReadersDone(k)
  \/ StopSendTerm(k)
  \/ StopTermExited(k)
  \/ StopTermTimeout(k)
  \/ StopKillExited(k)
  \/ StopKillTimeout(k)
  \/ StopForeverExited(k)

(* stop() has reached the forceful kill of child c *)
KillReached(c) ==
  \E k \in Calls : calls[k].proc = c /\ calls[k].pc \in {"wait_kill", "wait_forever"}

(* a child on which the forceful kill was tried exits *)
KilledExit(c) == KillReached(c) /\ \E rc \in ExitCodes : ChildExit(c, rc)

Fairness ==
  /\ \A c \in Children, s \in Streams : WF_vars(ReaderStep(c, s))
  /\ \A w \in Children : WF_vars(WatcherStep(w))
  /\ \A k \in Calls : WF_vars(CallStep(k))
  /\ \A c \in Children : WF_vars(KilledExit(c))
  /\ WF_vars(Tick)

FairSpec == Spec /\ Fairness

(* the controller when a stop() may be called while another is in flight *)
NextOverlap ==
  \/ \E c \in Children, rc \in ExitCodes : ChildExit(c, rc)
  \/ Tick
  \/ \E c \in Children, s \in Streams : ReaderEof(c, s)
  \/ \E c \in Children, s \in Streams : ReaderCancelled(c, s)
  \/ \E w \in Children : WatcherStart(w)
  \/ \E w \in Children : WatcherExit(w)
  \/ \E w \in Children : WatcherReadersDone(w)
  \/ \E k \in Calls : StartBegin(k)
  \/ \E k \in Calls : StartSpawned(k)
  \/ \E k \in Calls : StopOverlap(k)
  \/ \E k \in Calls : StopReadersDone(k)
  \/ \E k \in Calls : StopSendTerm(k)
  \/ \E k \in Calls : StopTermExited(k)
  \/ \E k \in Calls : StopTermTimeout(k)
  \/ \E k \in Calls : StopKillExited(k)
  \/ \E k \in Calls : StopKillTimeout(k)
  \/ \E k \in Calls : StopForeverExited(k)
  \/ \E k \in Calls, cmd \in Commands : SendCommand(k, cmd)

OverlapSpec == Init /\ [][NextOverlap]_vars

(* the controller when stop() is never called *)
NextNoStop ==
  \/ \E c \in Children, rc \in ExitCodes : ChildExit(c, rc)
  \/ \E c \in Children, s \in Streams : ReaderEof(c, s)
  \/ \E c \in Children, s \in Streams : ReaderCancelled(c, s)
  \/ \E w \in Children : WatcherStart(w)
  \/ \E w \in Children : WatcherExit(w)
  \/ \E w \in Children : WatcherReadersDone(w)
  \/ \E k \in Calls : StartBegin(k)
  \/ \E k \in Calls : StartSpawned(k)
  \/ \E k \in Calls, cmd \in Commands : SendCommand(k, cmd)

FairNoStop == Init /\ [][NextNoStop]_vars /\ Fairness

(* the texts send_command() is tried on: the empty text, "say hi", a text   *)
(* with a newline inside, "\u00e9", "\u20ac", "\U0001f600" and a lone       *)
(* surrogate                                                               *)
Texts == {<<>>, SayHi, <<97, 10, 98>>, <<233>>, <<8364>>, <<128512>>, <<55296, 97>>}

(* the controller started, its child running or gone, and commands sent *)
NextSend ==
  \/ \E c \in Children, rc \in ExitCodes : ChildExit(c, rc)
  \/ \E k \in Calls : StartBegin(k)
  \/ \E k \in Calls : StartSpawned(k)
  \/ \E k \in Calls, text \in Texts : SendCommand(k, text)

SendSpec == Init /\ [][NextSend]_vars

(* start() while fewer than MaxStreamChildren children were started *)
StreamStart(k) == StartBegin(k) /\ nspawned < MaxStreamChildren

(* the controller with the output of its child: what the child writes and *)
(* the readers deliver, next to start(), stop() and the watcher;          *)
(* MaxStreamChildren children are started                                  *)
NextStream ==
  \/ \E c \in Children, s \in Streams : ChildWrite(c, s)
  \/ \E c \in Children, s \in Streams : ReaderLine(c, s)
  \/ \E c \in Children, rc \in ExitCodes : ChildExit(c, rc)
  \/ Tick
  \/ \E c \in Children, s \in Streams : ReaderEof(c, s)
  \/ \E c \in Children, s \in Streams : ReaderCancelled(c, s)
  \/ \E w \in Children : WatcherStart(w)
  \/ \E w \in Children : WatcherExit(w)
  \/ \E w \in Children : WatcherReadersDone(w)
  \/ \E k \in Calls : StreamStart(k)
  \/ \E k \in Calls : StartSpawned(k)
  \/ \E k \in Calls : StopBegin(k)
  \/ \E k \in Calls : StopReadersDone(k)
  \/ \E k \in Calls : StopSendTerm(k)
  \/ \E k \in Calls : StopTermExited(k)
  \/ \E k \in Calls : StopTermTimeout(k)
  \/ \E k \in Calls : StopKillExited(k)
  \/ \E k \in Calls : StopKillTimeout(k)
  \/ \E k \in Calls : StopForeverExited(k)

StreamSpec == Init /\ [][NextStream]_vars

(* child c writes a line to its stdout, MaxRaceLines at most *)
RaceWrite(c) == ChildWrite(c, "stdout") /\ written[<<c, "stdout">>] < MaxRaceLines

(* the controller with the output of its children when calls of start()   *)
(* may overlap and calls of stop() may overlap, up to the point where a    *)
(* stop() has closed the input pipe                                        *)
NextRace ==
  \/ \E c \in Children : RaceWrite(c)
  \/ \E c \in Children, s \in Streams : ReaderLine(c, s)
  \/ \E c \in Children, rc \in ExitCodes : ChildExit(c, rc)
  \/ \E c \in Children, s \in Streams : ReaderEof(c, s)
  \/ \E c \in Children, s \in Streams : ReaderCancelled(c, s)
  \/ \E w \in Children : WatcherStart(w)
  \/ \E w \in Children : WatcherExit(w)
  \/ \E w \in Children : WatcherReadersDone(w)
  \/ \E k \in Calls : StartBegin(k)
  \/ \E k \in Calls : StartSpawned(k)
  \/ \E k \in Calls : StopOverlap(k)
  \/ \E k \in Calls : StopReadersDone(k)

RaceSpec == Init /\ [][NextRace]_vars

(* ================================================================== *)
(* Claims                                                               *)
(* ================================================================== *)

(* the last step was a successful start(): on_status(True) was invoked *)
StartSucceeded == \E c \in Children : Emits(StatusEv(TRUE, c))
(* the last step was the return of a stop() *)
StopCompleted == \E k \in Calls : Emits(ReturnEv("stop", k))

(* C1: under every interleaving of start(), stop(), send_command() and the *)
(* background tasks, at most one child spawned by the controller is alive. *)
C1_AtMostOneAlive == Cardinality(AliveChildren) <= 1

(* C2, as stated: is_running() is false before any start(), true in the    *)
(* state right after a successful start() returns, false after a stop()    *)
(* has completed or the held child has exited, and stays false until the   *)
(* next successful start().                                                *)
C2_AsStated ==
  /\ ~is_running
  /\ [][/\ StartSucceeded' => is_running'
        /\ StopCompleted' => ~is_running'
        /\ (proc # NoProc /\ returncode'[proc] # NoRc /\ proc' = proc) => ~is_running'
        /\ (~is_running /\ is_running') => StartSucceeded']_vars

(* C2, amended: as C2, but right after a successful start() returns        *)
(* is_running() is true unless the child has already exited by then.       *)
C2_IsRunning ==
  /\ ~is_running
  /\ [][/\ StartSucceeded' => (is_running' <=> returncode'[proc'] = NoRc)
        /\ StartSucceeded' => proc' # NoProc
        /\ StopCompleted' => ~is_running'
        /\ (proc # NoProc /\ returncode'[proc] # NoRc /\ proc' = proc) => ~is_running'
        /\ (~is_running /\ is_running') => StartSucceeded']_vars

(* a start() has just succeeded on a child that exited while it was being  *)
(* spawned: the handle is held and is_running() is false                   *)
C2_Witness == StartSucceeded /\ proc # NoProc /\ ~is_running

(* C3: every stop() invoked while a handle is held eventually returns with *)
(* the handle released, is_running() false and on_status(False) invoked,   *)
(* whatever fails on the way, provided the forceful kill ends the child.   *)
C3_StopReturns ==
  /\ \A k \in Calls : (calls[k].op = "stop") ~> Emits(ReturnEv("stop", k))
  /\ [][\A k \in Calls :
          (calls[k].op = "stop" /\ Emits(ReturnEv("stop", k))') =>
            /\ proc' = NoProc
            /\ ~is_running'
            /\ \E i \in 1..Len(out') : out'[i] = StatusEv(FALSE, calls[k].proc)
            /\ lastStatus' = "false"
       ]_vars

(* a stop() that held a handle has just returned: the handle is released   *)
(* and the last status reported is false                                   *)
C3_Witness ==
  \E k \in Calls, c \in Children :
    /\ Emits(ReturnEv("stop", k))
    /\ Emits(ReleaseEv("stop", c))
    /\ Emits(StatusEv(FALSE, c))
    /\ proc = NoProc
    /\ lastStatus = "false"

(* a signal counts as sent when stop() issued it, on the group route or on  *)
(* the single-process fallback                                             *)
Issued(flag) == flag # "no"

(* C4: when stop() is called on a child that does not exit within the      *)
(* grace period, SIGTERM and then SIGKILL are both sent to it, and both are *)
(* sent before the handle is released by stop() or by an exit watcher: a    *)
(* stop() past its first timeout has issued both, and while the child of a  *)
(* stop() in progress lives and SIGKILL is not out, a handle is held.       *)
C4_SignalsBeforeRelease ==
  \A k \in Calls :
    calls[k].op = "stop" =>
      /\ calls[k].pc \in {"wait_kill", "wait_forever"} =>
           Issued(calls[k].term) /\ Issued(calls[k].kill)
      /\ Issued(calls[k].kill) => Issued(calls[k].term)
      /\ (Alive(calls[k].proc) /\ ~Issued(calls[k].kill)) => proc # NoProc

(* the steps of a stop() identified by what they do *)
SendsKill(k) == calls[k].op = "stop" /\ ~Issued(calls[k].kill) /\ Issued(calls'[k].kill)
StopReturnsNow(k) == calls[k].op = "stop" /\ calls'[k] = IdleCall

(* C5: in every stop() on a held process SIGTERM is sent before any wait;  *)
(* SIGKILL is sent only after SIGTERM was sent and the first wait timed out *)
(* at exactly 5 time units with the child not exited; for a child that     *)
(* exits within the grace period SIGKILL is never sent and the force-kill   *)
(* line is not logged.                                                     *)
C5_Escalation ==
  [][\A k \in Calls :
       /\ calls'[k].pc \in {"wait_term", "wait_kill", "wait_forever"} =>
            Issued(calls'[k].term)
       /\ (EmitsKind("SIGKILL")' \/ SendsKill(k)) =>
            \E j \in Calls :
              /\ SendsKill(j)
              /\ calls[j].pc = "wait_term"
              /\ Issued(calls[j].term)
              /\ calls[j].timer = 5
              /\ returncode[calls[j].proc] = NoRc
              /\ out' = <<LogEv("Server did not stop in time; force killing...",
                                calls[j].proc, 0),
                          out'[2]>>
              /\ out'[2][1] = "SIGKILL"
       /\ (StopReturnsNow(k) /\ calls[k].pc = "wait_term") =>
            /\ ~Issued(calls[k].kill)
            /\ returncode[calls[k].proc] # NoRc
            /\ ~EmitsKind("SIGKILL")'
            /\ \A c \in Children :
                 ~Emits(LogEv("Server did not stop in time; force killing...", c, 0))'
       /\ \A c \in Children :
            Emits(LogEv("Server did not stop in time; force killing...", c, 0))' =>
              EmitsKind("SIGKILL")'
    ]_vars

(* a stop() has timed out on a live child and sent SIGKILL after SIGTERM *)
C5_Witness ==
  \E k \in Calls : /\ calls[k].pc = "wait_kill"
                   /\ calls[k].term = "sent" /\ calls[k].kill = "sent"
                   /\ EmitsKind("SIGKILL")

(* C6: if the child exits on its own (stop() is never called), the watcher *)
(* eventually logs "Server exited (code rc)" with the child's exit code,    *)
(* then cancels the readers, releases the handle and reports status false. *)
C6_WatcherReports ==
  \A c \in Children :
    /\ (returncode[c] # NoRc /\ watch[c].pc \in {"new", "waiting"})
         ~> Emits(LogEv("Server exited", c, returncode[c]))
    /\ Emits(LogEv("Server exited", c, returncode[c])) ~>
         (Emits(StatusEv(FALSE, c)) /\ EmitsKind("release") /\ proc = NoProc
          /\ NotDone({<<c, s>> : s \in Streams}) = {})

(* C7: on_status(False) is invoked only when the process is confirmed gone: *)
(* at each invocation no child of this controller is alive, and stop()      *)
(* never returns while the child it was stopping is alive.                 *)
C7_OfflineMeansGone ==
  \A c \in Children :
    Emits(StatusEv(FALSE, c)) => (AliveChildren = {} /\ ~Alive(c))

(* C8: of two start() calls with no stop() between them only the first     *)
(* spawns a child and reports status true; a start() that finds the process *)
(* running, or an earlier start() still spawning it, logs "Server is        *)
(* already running." and changes no controller state.                      *)
C8_SecondStartRejected ==
  [][\A k \in Calls :
       StartBegin(k) =>
         IF AliveChildren # {} \/ \E j \in Calls : calls[j].op = "start"
           THEN /\ out' = <<LogEv("Server is already running.", proc, 0),
                            ReturnEv("start", k)>>
                /\ UNCHANGED <<ctlVars, childVars, rstate, nread, watch, calls, lastStatus>>
           ELSE TRUE
    ]_vars

(* C9: in every state where is_running() is false, stop() is a no-op: it   *)
(* raises nothing, invokes no status callback, sends no signal, logs        *)
(* nothing and leaves the handle and the task lists unchanged.             *)
C9_StopNoOp ==
  [][\A k \in Calls :
       (StopBegin(k) /\ ~is_running) =>
         /\ out' = <<ReturnEv("stop", k)>>
         /\ UNCHANGED <<ctlVars, childVars, rstate, nread, watch, calls, lastStatus>>
    ]_vars

(* C10: send_command() logs "Server is not running.", writes nothing and   *)
(* raises nothing in every state where no supervised process is active or   *)
(* the child's stdin has been closed, also between the close of stdin by a  *)
(* stop() and the release of the handle.                                   *)
C10_SendNotRunning ==
  [][\A k \in Calls, cmd \in Commands :
       (SendCommand(k, cmd) /\ (~is_running \/ stdinClosed[proc])) =>
         out' = <<LogEv("Server is not running.", 0, 0), ReturnEv("send", k)>>
    ]_vars

(* the bytes the last step wrote to the stdin of child c, in order *)
StdinBytes(c) ==
  LET idx == {i \in 1..Len(out) : out[i][1] = "byte" /\ out[i][3] = c}
      Pos(j) == CHOOSE i \in idx : Cardinality({h \in idx : h < i}) = j - 1
  IN [j \in 1..Cardinality(idx) |-> out[Pos(j)][4]]

(* the UTF-8 bytes of a text, each code point encoded *)
RECURSIVE Utf8Bytes(_)
Utf8Bytes(text) ==
  IF text = <<>> THEN <<>> ELSE Utf8(Head(text)) \o Utf8Bytes(Tail(text))

(* a text with every lone surrogate replaced by "?" *)
Replaced(text) ==
  [i \in 1..Len(text) |-> IF IsSurrogate(text[i]) THEN QuestionMark ELSE text[i]]

SendsOn(k, text) == SendCommand(k, text) /\ is_running /\ ~stdinClosed[proc]

(* C11, as stated: for every text t, send_command(t) on a running process  *)
(* with open stdin writes exactly the UTF-8 bytes of t followed by one      *)
(* newline byte to the child's stdin, once, within the call.               *)
C11_AsStated ==
  [][\A k \in Calls, text \in Texts :
       SendsOn(k, text) =>
         /\ out' = WriteEv(Utf8Bytes(text) \o <<10>>, proc) \o <<ReturnEv("send", k)>>
    ]_vars

(* C11, amended: the bytes written are the UTF-8 bytes of t, with "?" for   *)
(* each lone surrogate of t, followed by one newline byte; they are written *)
(* once, to the child the handle refers to, in the step of the call, so     *)
(* successive calls reach the pipe in call order; "say hi" gives            *)
(* the bytes of "say hi\n".                                                *)
C11_SendWrites ==
  [][\A k \in Calls, text \in Texts :
       SendsOn(k, text) =>
         LET data == StdinBytes(proc)'
         IN /\ data = Utf8Bytes(Replaced(text)) \o <<10>>
            /\ \A c \in Children : c # proc => StdinBytes(c)' = <<>>
            /\ out'[Len(out')] = ReturnEv("send", k)
            /\ Len(out') = Len(data) + 1
            /\ text = SayHi => data = <<115, 97, 121, 32, 104, 105, 10>>
    ]_vars

(* "€" has just been written to the stdin of a running child *)
C11_Witness ==
  /\ is_running /\ ~stdinClosed[proc]
  /\ StdinBytes(proc) = <<226, 130, 172, 10>>

(* C12: if spawning fails inside start(), the failure propagates to the     *)
(* caller and no process state is created: the handle and the task lists    *)
(* stay as they were, is_running() stays false, no child, reader or watcher *)
(* comes into being and on_status(True) is not invoked.                    *)
C12_SpawnFailure ==
  [][\A k \in Calls :
       (\E i \in 1..Len(out') : out'[i] = RaiseEv("start", k)) =>
         /\ StartBegin(k)
         /\ ~is_running /\ ~is_running'
         /\ UNCHANGED <<ctlVars, childVars, rstate, nread, watch, calls, lastStatus>>
         /\ proc = NoProc => proc' = NoProc
         /\ \A c \in Children \cup {0}, i \in 1..Len(out') : out'[i] # StatusEv(TRUE, c)
         /\ out'[Len(out')] = RaiseEv("start", k)
    ]_vars

(* a start() has just raised with no handle held *)
C12_Witness ==
  \E k \in Calls : Emits(RaiseEv("start", k)) /\ proc = NoProc /\ readerTasks = {}

(* C13: a failure met by stop() while closing stdin or signalling the       *)
(* process is caught inside stop(), produces a line on the log sink, is not *)
(* propagated, and stop() goes on to its next step.                        *)
C13_FailuresLogged ==
  [][\A k \in Calls, c \in Children, sig \in {"SIGTERM", "SIGKILL"} :
       (calls[k].op = "stop" /\ calls[k].proc = c
        /\ \E i \in 1..Len(out') : out'[i] = SignalEv(sig, c, "failed")) =>
         /\ \E i, j \in 1..Len(out') :
              /\ i < j
              /\ out'[i] = SignalEv(sig, c, "failed")
              /\ out'[j][1] = "log"
         /\ \A i \in 1..Len(out') : out'[i][1] # "raise"
         /\ calls'[k].pc = IF sig = "SIGTERM" THEN "wait_term" ELSE "wait_kill"
    ]_vars

(* the reader tasks start() created for child c *)
ReadersOf(c) == {<<c, s>> : s \in Streams}

(* C14: teardown is idempotent under double invocation: when stop() and the *)
(* exit watcher both tear down the same child, in either order, neither     *)
(* raises, and each teardown, the first as the second, ends in the state of *)
(* a single teardown: handle released, reader list empty, last status       *)
(* false.  (The handle and the reader list are those of this child: no      *)
(* start() has replaced them in between.)                                  *)
C14_TeardownIdempotent ==
  [][\A c \in Children :
       ((\E i \in 1..Len(out') : out'[i] = StatusEv(FALSE, c))
        /\ proc \in {NoProc, c} /\ readerTasks \subseteq ReadersOf(c)) =>
         /\ proc' = NoProc
         /\ readerTasks' = {}
         /\ lastStatus' = "false"
         /\ \A i \in 1..Len(out') : out'[i][1] # "raise"
         /\ (proc = NoProc /\ readerTasks = {} /\ lastStatus = "false") =>
              UNCHANGED <<proc, readerTasks, lastStatus, childVars, rstate>>
    ]_vars

(* stop() has just torn down a child whose watcher had already released    *)
(* the handle and finished                                                 *)
C14_Witness ==
  \E c \in Children :
    /\ Emits(ReleaseEv("stop", NoProc))
    /\ Emits(StatusEv(FALSE, c))
    /\ watch[c].pc = "done"
    /\ proc = NoProc /\ readerTasks = {} /\ lastStatus = "false"

(* line n of stream s of child c is delivered to the log sink in this step *)
Delivers(c, s, n) == \E i \in 1..Len(out') : out'[i] = LogEv(s, c, n)

(* C15: for each stream of a child, the lines delivered to the log sink are *)
(* lines 1, 2, 3, ... of what the child wrote to that stream, each once, in *)
(* order and without gaps, and never more than the child wrote.            *)
C15_StreamPrefix ==
  [][\A c \in Children, s \in Streams :
       LET t == <<c, s>>
       IN /\ \A n \in 0..(MaxLines + 1) :
               Delivers(c, s, n) =>
                 /\ n = nread[t] + 1
                 /\ n <= written[t]
                 /\ nread'[t] = n
                 /\ Cardinality({i \in 1..Len(out') : out'[i][1] = "log"}) = 1
          /\ nread'[t] <= written'[t]
          /\ nread'[t] >= nread[t]
          /\ written'[t] >= written[t]
    ]_vars

(* the second line of a stream has just been delivered *)
C15_Witness ==
  \E c \in Children, s \in Streams :
    nread[<<c, s>>] = 2 /\ Emits(LogEv(s, c, 2))

(* C16: every line a reader has read from a pipe before the watcher         *)
(* observes the exit is delivered before the "Server exited" notice of that *)
(* child: a line is delivered in the very step in which the reader takes it *)
(* off the pipe, and the step that logs the notice reads no line and logs   *)
(* the notice first.                                                       *)
C16_LinesBeforeExitNotice ==
  [][\A c \in Children, s \in Streams :
       LET t == <<c, s>>
       IN /\ nread'[t] # nread[t] =>
               (nread'[t] = nread[t] + 1 /\ out' = <<LogEv(s, c, nread'[t])>>)
          /\ (\E i \in 1..Len(out') : out'[i] = LogEv("Server exited", c, returncode[c])) =>
               /\ nread'[t] = nread[t]
               /\ out'[1] = LogEv("Server exited", c, returncode[c])
               /\ \A n \in 1..MaxLines : ~Delivers(c, s, n)
    ]_vars

(* the exit notice of a child has just been logged after a line of its      *)
(* stdout was delivered, with another line still in the pipe               *)
C16_Witness ==
  \E c \in Children :
    /\ Emits(LogEv("Server exited", c, returncode[c]))
    /\ nread[<<c, "stdout">>] = 1
    /\ written[<<c, "stdout">>] = 2

(* ---- LogBuffer ---- *)

Max0(n) == IF n < 0 THEN 0 ELSE n
Min(a, b) == IF a < b THEN a ELSE b

(* the n most recent items of a sequence, in their order *)
LastN(items, n) == SubSeq(items, Len(items) - n + 1, Len(items))

(* C17 as stated: after append() calls the buffer holds at most max_messages *)
(* entries, the most recent min(n, max_messages) messages appended, in      *)
(* their order, whatever max_messages is.                                   *)
C17_AsStated ==
  appended # <<>> =>
    /\ Len(messages) <= max_messages
    /\ messages = LastN(appended, Min(Len(appended), max_messages))

(* C17: after append() calls the buffer holds at most max(0, max_messages)  *)
(* entries, and they are exactly the most recent                            *)
(* min(n, max(0, max_messages)) of the n messages appended, in their order. *)
C17_KeepsMostRecent ==
  /\ Len(messages) <= Max0(max_messages)
  /\ messages = LastN(appended, Min(Len(appended), Max0(max_messages)))

(* three different messages appended to a buffer of two: the oldest is gone *)
C17_Witness ==
  /\ max_messages = 2
  /\ Len(appended) = 3
  /\ appended[1] # appended[2] /\ appended[2] # appended[3]
  /\ messages = <<appended[2], appended[3]>>

(* the number of segments str.splitlines() or [""] makes of a text, counted *)
(* from its line ends                                                      *)
SegCount(text) ==
  IF text = <<>> THEN 1
  ELSE Cardinality({i \in 1..Len(text) :
                      /\ text[i] \in LineBoundaries
                      /\ ~(text[i] = 13 /\ i < Len(text) /\ text[i + 1] = 10)})
       + (IF text[Len(text)] \in LineBoundaries THEN 0 ELSE 1)

RECURSIVE SegTotal(_)
SegTotal(msgs) == IF msgs = <<>> THEN 0 ELSE SegCount(Head(msgs)) + SegTotal(Tail(msgs))

(* the segments of the stored messages, in store order *)
RECURSIVE Segments(_)
Segments(msgs) ==
  IF msgs = <<>> THEN <<>> ELSE split_lines(Head(msgs)) \o Segments(Tail(msgs))

(* the lines of one rendered entry: the entry cut at its newlines *)
RECURSIVE WrappedLines(_)
WrappedLines(entry) ==
  IF \A i \in 1..Len(entry) : entry[i] # NewLine THEN <<entry>>
  ELSE LET n == CHOOSE i \in 1..Len(entry) :
                  entry[i] = NewLine /\ \A j \in 1..(i - 1) : entry[j] # NewLine
       IN <<SubSeq(entry, 1, n - 1)>> \o WrappedLines(SubSeq(entry, n + 1, Len(entry)))

(* the characters of a text that are neither blank nor a line end *)
Inked(text) ==
  SelectSeq(text, LAMBDA c : c # Space /\ c # Tab /\ c \notin LineBoundaries)

(* the lines are slices of the text, one after the other, from position from on *)
RECURSIVE SlicesInOrder(_, _, _)
SlicesInOrder(lines, text, from) ==
  \/ lines = <<>>
  \/ \E a \in from..(Len(text) - Len(Head(lines)) + 1) :
       /\ SubSeq(text, a, a + Len(Head(lines)) - 1) = Head(lines)
       /\ SlicesInOrder(Tail(lines), text, a + Len(Head(lines)))

(* every word of the text no longer than width is whole in one of the lines *)
WordsWhole(lines, text, width) ==
  \A k \in 1..Len(Chunks(text)) :
    LET word == Chunks(text)[k]
    IN (~AllSpace(word) /\ Len(word) <= width) =>
         \E i \in 1..Len(lines) : \E a \in 1..(Len(lines[i]) - Len(word) + 1) :
           SubSeq(lines[i], a, a + Len(word) - 1) = word

C19_RenderTotal ==
  /\ \A width \in Widths :
       Len(RenderLines(messages, RenderWidth(width))) = SegTotal(messages)
  /\ rendered.done =>
       /\ rendered.width < MinWidth => rendered.lines = RenderLines(messages, MinWidth)
       /\ Len(rendered.lines) = SegTotal(messages)
       /\ Len(rendered.lines) >= Len(messages)
       /\ Inked(Join(rendered.lines)) = Inked(Join(messages))
       /\ (\A i \in 1..Len(messages) : SegCount(messages[i]) = 1) =>
            \A i \in 1..Len(messages) :
              /\ Inked(rendered.lines[i]) = Inked(messages[i])
              /\ messages[i] = <<>> => rendered.lines[i] = <<>>

(* a message of three segments, one empty, and an empty message rendered at *)
(* a negative width                                                        *)
C19_Witness ==
  /\ rendered.done /\ rendered.width < 0
  /\ messages = << <<97, 98, 10, 10, 99, 100>>, <<>> >>
  /\ rendered.lines = << <<97, 98>>, <<>>, <<99, 100>>, <<>> >>

(* ---- StatsSampler ---- *)

(* C20: for each process handed to the sampler, the first sample() call for *)
(* that process returns the empty "not ready" result and the second call a  *)
(* populated snapshot, also for a process sampled by the same sampler after *)
(* an earlier one.                                                          *)
C20_WarmUpPerProcess ==
  lastSample.result # "no call" =>
    /\ nsampled[lastSample.proc] = 1 => lastSample.result = "not ready"
    /\ nsampled[lastSample.proc] = 2 => lastSample.result = "snapshot"

(* C21: the cpu_percent of every snapshot is the arithmetic mean of the last *)
(* min(n, cpu_history_size) clamped normalized readings of the n calls past  *)
(* the warm-up; with cpu_history_size = 3 the readings 10, 20, 90 give 40    *)
(* and a fourth reading 30 gives (20 + 90 + 30) / 3.                         *)
C21_Smoothing ==
  (lastSample.result = "snapshot" /\ cpu_history_size >= 1) =>
    LET k == Min(Len(readings), cpu_history_size)
        cpu == lastSample.cpu_percent
    IN /\ k >= 1 /\ cpu.den > 0
       /\ cpu.num * (cpu_count * k) = Sum(LastN(readings, k)) * cpu.den
       /\ (cpu_history_size = 3
            /\ readings = <<10 * cpu_count, 20 * cpu_count, 90 * cpu_count>>)
          => cpu.num = 40 * cpu.den
       /\ (cpu_history_size = 3
            /\ readings = <<10 * cpu_count, 20 * cpu_count, 90 * cpu_count,
                            30 * cpu_count>>)
          => 3 * cpu.num = (20 + 90 + 30) * cpu.den

(* the fourth reading 30 has evicted 10 from a history of three *)
C21_Witness ==
  /\ lastSample.result = "snapshot"
  /\ cpu_history_size = 3 /\ cpu_count = 2
  /\ readings = <<20, 40, 180, 60>>
  /\ cpu_history = <<40, 180, 60>>
  /\ 3 * lastSample.cpu_percent.num = 140 * lastSample.cpu_percent.den

(* C22: every snapshot has cpu_percent within [0, 100] and memory values    *)
(* that are integers not below zero, whatever the CPU and memory readings.  *)
C22_SnapshotRanges ==
  lastSample.result = "snapshot" =>
    /\ lastSample.cpu_percent.den > 0
    /\ 0 <= lastSample.cpu_percent.num
    /\ lastSample.cpu_percent.num <= MaxPercent * lastSample.cpu_percent.den
    /\ lastSample.rss_mb \in Nat
    /\ lastSample.total_ram_mb \in Nat

(* a snapshot of a tree busier than 100 percent of every core, and one of   *)
(* readings below zero before it                                            *)
C22_Witness ==
  /\ lastSample.result = "snapshot"
  /\ lastSample.raw_cpu_sum > MaxPercent * cpu_count
  /\ Len(readings) = 2
  /\ readings[1] = 0 /\ readings[2] = MaxPercent * cpu_count
  /\ lastSample.cpu_percent.num * 2 = MaxPercent * lastSample.cpu_percent.den

(* C23: when every read on the target process fails, sample() returns the   *)
(* empty result and no snapshot, on the warm-up call and on every later one. *)
C23_VanishedIsEmpty ==
  (/\ lastSample.result # "no call"
   /\ lastSample.tree = <<Vanished>>
   /\ ~lastSample.enumerated)
  => lastSample.result = "not ready"

(* the processes of the tree sample() enumerated whose reads both succeeded *)
Readable(given) ==
  SelectSeq(Enumerated(given.tree, given.enumerated),
            LAMBDA r : r.cpuOk /\ r.memOk)

RECURSIVE SumCpu(_)
SumCpu(procs) == IF procs = <<>> THEN 0 ELSE Head(procs).cpu + SumCpu(Tail(procs))
RECURSIVE SumRss(_)
SumRss(procs) == IF procs = <<>> THEN 0 ELSE Head(procs).rss + SumRss(Tail(procs))

(* C24: a failed read of a process of the tree does not fail sample(), and  *)
(* the CPU sum and the memory sum are both taken over exactly the processes *)
(* whose reads succeeded.                                                   *)
C24_AggregatesOverReadable ==
  /\ lastSample.result \in {"no call", "not ready", "snapshot"}
  /\ lastSample.result = "snapshot" =>
       /\ lastSample.raw_cpu_sum = SumCpu(Readable(lastSample))
       /\ lastSample.rss_mb = Max0(IntDiv(SumRss(Readable(lastSample)), MiB))

(* C25: a failed system-wide read does not fail sample(): a failed machine  *)
(* CPU read gives sys_cpu_percent = 0, a failed total-memory read gives a   *)
(* floor above zero, and total_ram_mb is at least 1 in every snapshot.      *)
C25_SystemReadDefaults ==
  /\ lastSample.result \in {"no call", "not ready", "snapshot"}
  /\ warmed => lastSample.result # "no call"
  /\ lastSample.result = "snapshot" =>
       /\ ~lastSample.sys.ok => lastSample.sys_cpu_percent = 0
       /\ lastSample.sys.ok => lastSample.sys_cpu_percent = lastSample.sys.v
       /\ ~lastSample.total.ok => lastSample.total_ram_mb >= RamFloor
       /\ lastSample.total_ram_mb >= 1

(* a snapshot taken while both system-wide reads fail *)
C25_Witness ==
  /\ lastSample.result = "snapshot"
  /\ ~lastSample.sys.ok /\ ~lastSample.total.ok
  /\ lastSample.sys_cpu_percent = 0
  /\ lastSample.total_ram_mb = RamFloor

(* ---- ServerController: order of steps, exit notice, pid, ownership ---- *)

(* the step in which call k of stop() sends SIGTERM on a route that works *)
SendsTerm(k) ==
  /\ calls[k].op = "stop"
  /\ calls'[k].term = "sent" /\ calls[k].term # "sent"

(* C26: within one stop() on a held process "Stopping server..." is logged, *)
(* then both reader tasks of the process are cancelled and have completed,  *)
(* then its input pipe is closed, and only then SIGTERM is sent: no signal  *)
(* is sent while a reader task of the process is still running.             *)
C26_StopOrder ==
  [][\A k \in Calls :
       /\ (calls[k].op # "stop" /\ calls'[k].op = "stop") =>
            /\ out' = <<LogEv("Stopping server...", calls'[k].proc, 0)>>
            /\ calls'[k].term = "no"
       /\ SendsTerm(k) =>
            /\ calls[k].pc = "close_stdin"
            /\ stdinClosed[calls[k].proc]
            /\ \A s \in Streams : rstate[<<calls[k].proc, s>>] = "done"
    ]_vars

(* start() has returned for child c: its status true has been reported *)
Started(c) == watch[c].pc # "none"

(* C27: within one successful start() "Starting server" is logged, the     *)
(* child is spawned, the status callback gets true, "Server started" is    *)
(* logged, and then exactly two reader tasks (stdout, stderr) and exactly   *)
(* one watcher task are launched; no output line of a child is logged       *)
(* before the status callback got true for it.                              *)
C27_StartOrder ==
  /\ [][\A k \in Calls :
          /\ (calls[k].op # "start" /\ calls'[k].op = "start") =>
               /\ out' = <<LogEv("Starting server", 0, 0)>>
               /\ nspawned' = nspawned + 1
               /\ calls'[k].proc = nspawned'
               /\ ~Started(calls'[k].proc)
               /\ UNCHANGED <<proc, readerTasks, waitTask, rstate, watch, lastStatus>>
          /\ (calls[k].op = "start" /\ calls'[k].op # "start") =>
               LET c == calls[k].proc
               IN /\ c <= nspawned
                  /\ out' = <<StatusEv(TRUE, c), LogEv("Server started", c, 0),
                              ReturnEv("start", k)>>
                  /\ {t \in Readers : rstate[t] # "running" /\ rstate'[t] = "running"}
                       = {<<c, "stdout">>, <<c, "stderr">>}
                  /\ Cardinality(readerTasks') = 2
                  /\ {w \in Children : watch[w].pc # "new" /\ watch'[w].pc = "new"} = {c}
                  /\ waitTask' = c
     ]_vars
  /\ [](\A c \in Children, s \in Streams, n \in 1..MaxLines :
          Emits(LogEv(s, c, n)) => Started(c))

(* a line of the child is logged after start() reported it online *)
C27_Witness ==
  \E c \in Children :
    /\ Emits(LogEv("stdout", c, 1))
    /\ Started(c) /\ proc = c
    /\ readerTasks = {<<c, "stdout">>, <<c, "stderr">>}
    /\ watch[c].pc # "new"

(* C28: for every child spawned by start() the line "Server exited" is      *)
(* eventually logged, exactly once, and never while the child is alive.     *)
C28_ExitLoggedOnce ==
  /\ [](\A c \in Children, rc \in ExitCodes :
          Emits(LogEv("Server exited", c, rc)) => returncode[c] = rc)
  /\ [][\A w \in Children :
          (watch[w].pc = "waiting" /\ watch'[w].pc # "waiting") =>
            ~\E v \in Children \ {w} :
               watch'[v].pc = "waiting" /\ watch'[v].proc = watch[w].proc
     ]_vars
  /\ \A c \in Children :
       (Started(c) /\ returncode[c] # NoRc /\ watch[c].pc \in {"new", "waiting"})
         ~> (\E rc \in ExitCodes : Emits(LogEv("Server exited", c, rc)))

(* C29: pid is a process identifier only while the process is running: a    *)
(* pid that is not None implies is_running().                               *)
C29_PidOnlyWhileRunning == pid # NoProc => is_running

(* C30: while a child whose start() has returned is alive and stop() has    *)
(* not been called, the handle refers to it, is_running() is true, its      *)
(* reader tasks are running and the last status reported is true.          *)
C30_KeepsTrack ==
  \A c \in Children :
    (Alive(c) /\ Started(c)) =>
      /\ proc = c /\ is_running
      /\ \A s \in Streams : rstate[<<c, s>>] = "running"
      /\ lastStatus = "true"

(* C31: across the whole application, with the controllers it makes one    *)
(* after the other, at most one supervised child process is alive at any    *)
(* time, whatever the interleaving of start_installation(),                 *)
(* stop_if_running() and the background tasks.                              *)
C31_OneChildAppWide == Cardinality(AppAlive) <= 1

(* the log lines a step of the application passed to the sink *)
Logged(events) == SelectSeq(events, IsLog)

(* the messages in store that were passed to the sink by who *)
From(who) == \E n \in 1..Len(messages) : messages[n][2] \in who

(* C32: sink calls from the stdout reader, the stderr reader, the exit      *)
(* watcher and the orchestrator, in whatever order their steps interleave,  *)
(* leave the Log Buffer holding exactly the last max_messages messages      *)
(* passed to the sink, each once and in the order of the calls; every step  *)
(* adds what it logged and nothing else, and the store never holds more     *)
(* than max_messages.                                                       *)
C32_SinkKeepsAll ==
  /\ [](Len(messages) <= max_messages)
  /\ [](messages = LastN(appended, Min(Len(appended), max_messages)))
  /\ [][LET kept == messages \o Logged(appOut')
        IN messages' = LastN(kept, Min(Len(kept), max_messages))]_vars

(* lines of both readers, of the watcher and of the orchestrator are in a   *)
(* store that has evicted                                                   *)
C32_Witness ==
  /\ Len(appended) > max_messages
  /\ Len(messages) = max_messages
  /\ \E i \in Controllers :
       /\ \E n \in 1..Len(appended) : appended[n] = LogEv("stdout", i, 1)
       /\ \E n \in 1..Len(appended) : appended[n] = LogEv("stderr", i, 1)
       /\ \E n \in 1..Len(appended) : appended[n] = LogEv("Server exited", i, 0)
  /\ \E n \in 1..Len(appended) : appended[n][2] \in {"> command", "Server is not online."}
  /\ From({"stdout", "stderr"})

(* C33: render(width) leaves the stored messages and max_messages as they  *)
(* are, and what it returned is what a render of the same width returns     *)
(* for as long as no append() or clear() follows: the result is the         *)
(* projection of the store at that width and of nothing else.               *)
C33_RenderReadOnly ==
  /\ [][rendered'.done =>
         /\ messages' = messages
         /\ max_messages' = max_messages
         /\ (rendered.done /\ rendered.width = rendered'.width)
              => rendered'.lines = rendered.lines]_vars
  /\ [](rendered.done =>
          rendered.lines = RenderLines(messages, RenderWidth(rendered.width)))

(* a store of two messages or more was rendered, to some lines *)
C33_Witness ==
  /\ rendered.done
  /\ Len(messages) >= 2
  /\ Len(rendered.lines) > Len(messages)

(* C34: across append(), render() and clear() a stored entry keeps the     *)
(* text it was appended with and its place among the others: render()       *)
(* leaves the store as it is, append() leaves a suffix of the old store     *)
(* followed by the new message (entries go from the front only), and        *)
(* clear() leaves the LogBuffer as it was constructed, with the same        *)
(* max_messages.                                                            *)
C34_EntriesImmutable ==
  /\ [][/\ appended' = appended => messages' = messages
        /\ (appended # <<>> /\ appended' = <<>>) =>
             /\ messages' = <<>>
             /\ rendered' = NoRender
             /\ max_messages' = max_messages
        /\ Len(appended') = Len(appended) + 1 =>
             \E d \in 0..(Len(messages) + 1) :
               messages' = SubSeq(Append(messages, appended'[Len(appended')]),
                                  d + 1, Len(messages) + 1)]_vars
  /\ [](appended = <<>> => messages = <<>>)

(* entries were evicted and the two that stay differ in their text *)
C34_Witness ==
  /\ Len(appended) > Len(messages)
  /\ Len(messages) = 2
  /\ messages[1] # messages[2]
  /\ messages[1] # <<>>

(* C35: the CPU history never holds more than max(1, cpu_history_size)     *)
(* values; a sample() that returns "not ready" leaves it unchanged; a       *)
(* sample() that returns a snapshot appends exactly one value, the clamped  *)
(* reading of that call, and a full history gives up its oldest value for   *)
(* it.                                                                      *)
C35_HistoryBounded ==
  /\ [](Len(cpu_history) <= (IF cpu_history_size > 1 THEN cpu_history_size ELSE 1))
  /\ [][nsampled' # nsampled =>
         /\ lastSample'.result = "not ready" => cpu_history' = cpu_history
         /\ lastSample'.result = "snapshot" =>
              /\ readings' # <<>>
              /\ cpu_history' =
                   IF Len(cpu_history) < (IF cpu_history_size > 1
                                            THEN cpu_history_size ELSE 1)
                     THEN Append(cpu_history, readings'[Len(readings')])
                     ELSE Append(Tail(cpu_history), readings'[Len(readings')])]_vars

(* a sampler made with cpu_history_size = 0 has taken three snapshots and   *)
(* holds the reading of the last one                                        *)
C35_Witness ==
  /\ cpu_history_size = 0
  /\ lastSample.result = "snapshot"
  /\ Len(readings) = 3
  /\ readings[2] # readings[3]
  /\ cpu_history = <<readings[3]>>

(* C36: once the "Server exited" notice of a child has been logged, no     *)
(* further output line of that child is delivered to the log sink: the      *)
(* step that logs the notice leaves no reader of that child running, and a  *)
(* reader that was cancelled or is done reads and delivers nothing and      *)
(* stays so.                                                                *)
C36_NoLineAfterExitNotice ==
  [][\A c \in Children, s \in Streams :
       LET t == <<c, s>>
       IN /\ (\E i \in 1..Len(out') : out'[i] = LogEv("Server exited", c, returncode[c]))
               => rstate'[t] \in {"cancelled", "done"}
          /\ rstate[t] \in {"cancelled", "done"} =>
               /\ rstate'[t] \in {"cancelled", "done"}
               /\ nread'[t] = nread[t]
               /\ \A n \in 1..MaxLines : ~Delivers(c, s, n)
    ]_vars

(* C37: once stop() has logged "Stopping server..." for a child, no       *)
(* further output line of that child is delivered to the log sink: the      *)
(* step that logs the line leaves no reader of that child running, and a    *)
(* reader that was cancelled or is done delivers nothing from then on.      *)
C37_NoLineAfterStopping ==
  [][\A c \in Children, s \in Streams :
       LET t == <<c, s>>
       IN /\ (\E i \in 1..Len(out') : out'[i] = LogEv("Stopping server...", c, 0))
               => rstate'[t] \in {"cancelled", "done"}
          /\ rstate[t] \in {"cancelled", "done"} =>
               /\ rstate'[t] \in {"cancelled", "done"}
               /\ \A n \in 1..MaxLines : ~Delivers(c, s, n)
    ]_vars

(* the step called on_input_submitted with a command of n code points,   *)
(* the command input being found or missing                                *)
Submits(where, n) == \E e \in 1..Len(appOut') : appOut'[e] = Ev("input", where, 0, n)

(* the step wrote bytes to the input pipe of a child *)
WritesBytes == \E e \in 1..Len(appOut') : appOut'[e][1] = "byte"

(* the step handed the command to send_command of controller i: "> ..." is *)
(* logged and no byte is written before it; the bytes are written, or, the *)
(* pipe being closed, the call is suspended in drain()                     *)
Forwards(i, n) ==
  /\ \E e \in 1..Len(appOut') :
       /\ appOut'[e] = LogEv("> command", i, n)
       /\ \A b \in 1..e : appOut'[b][1] # "byte"
  /\ WritesBytes \/ sends' = sends + 1
  /\ \A e \in 1..Len(appOut') :
       appOut'[e][1] = "byte" => (appOut'[e][2] = "stdin" /\ appOut'[e][3] = i)

(* the step logged "Server is not online." and handed nothing on *)
Refuses ==
  /\ \E e \in 1..Len(appOut') : appOut'[e] = LogEv("Server is not online.", 0, 0)
  /\ ~WritesBytes
  /\ sends' = sends

(* C38 as stated: every submitted non-empty command is forwarded if a      *)
(* controller exists and is_running() is true at submission, "> command"    *)
(* being logged before the bytes are written, and is else answered with     *)
(* "Server is not online." and nothing written.                             *)
C38_AsStated ==
  [][\A where \in {"found", "missing"}, n \in 1..Len(SayHi) :
       Submits(where, n) =>
         IF controller # 0 /\ AppIsRunning(controller)
           THEN Forwards(controller, n)
           ELSE Refuses
    ]_vars

(* C38: a non-empty command submitted while the active screen holds the     *)
(* command input is forwarded to send_command if and only if a controller   *)
(* exists and is_running() is true at submission, "> command" being logged  *)
(* before any byte is written, and is else answered with "Server is not     *)
(* online." and nothing written; submitted while the command input is not   *)
(* found, it is dropped: nothing is logged, nothing forwarded.              *)
C38_ForwardsIffRunning ==
  [][\A n \in 1..Len(SayHi) :
       /\ Submits("found", n) =>
            IF controller # 0 /\ AppIsRunning(controller)
              THEN Forwards(controller, n)
              ELSE Refuses
       /\ Submits("missing", n) =>
            (Logged(appOut') = <<>> /\ ~WritesBytes /\ sends' = sends)
    ]_vars

(* a command was forwarded: its line was logged and its bytes written *)
C38_Witness ==
  /\ Len(appOut) > 2
  /\ appOut[1] = Ev("input", "found", 0, Len(SayHi))
  /\ appOut[2] = LogEv("> command", controller, Len(SayHi))
  /\ appOut[Len(appOut)] = Ev("byte", "stdin", controller, NewLine)

====
